---- MODULE Spec2Model ----
(***************************************************************************)
(* Build/test pipeline scripts of the webdriverio automation repository.   *)
(*                                                                         *)
(* One run of one script is one behaviour.  The scripts are                *)
(*   "build"   generateBuildReport   (enhanced build, src/unnamed/part_001)*)
(*   "test"    runComprehensiveTests (src/automation/test-automation.js)   *)
(*   "cibuild" build                 (CI build, src/unnamed/part_000)      *)
(*   "simtest" runTests              (simulated tests, src/unnamed/part_002)*)
(* Every subprocess (execSync) and every file-system call is an input: its *)
(* outcome is drawn with \E from the outcomes the call can have.           *)
(***************************************************************************)
EXTENDS Integers, Sequences, FiniteSets, TLC

\* ------------------------------------------------------------------ bounds
\* Longest captured test-runner output, in lines.
MaxLines == 2

\* Runs of one script in a row over the same reports directory.
MaxRuns == 2

\* ------------------------------------------------------- program constants
\* coverage.threshold.{statements,branches,functions,lines}
CoverageThreshold == 80
\* `if (passRate < 90)`
PassRateThreshold == 90

Progs == {"build", "test", "cibuild", "simtest"}

\* The ways an execSync call can end: exit status 0, exit status 1, another
\* non-zero exit status, killed (timeout or signal: status null), and the
\* child could not be spawned (no status, no output).
ExecOutcomes == {"ok", "exit1", "exitN", "killed", "spawn"}

\* error.status of the Error execSync throws (-1 stands for null/undefined).
ErrorStatus(o) ==
    CASE o = "exit1" -> 1
      [] o = "exitN" -> 2
      [] OTHER -> -1

\* error.message of the Error execSync throws for command cmd.
ErrorMessage(o, cmd) ==
    CASE o \in {"exit1", "exitN"} -> [kind |-> "Command failed", what |-> cmd]
      [] o = "killed" -> [kind |-> "ETIMEDOUT", what |-> cmd]
      [] OTHER -> [kind |-> "spawnSync failed", what |-> cmd]

\* error.message of a file-system call that throws.
FsErrorMessage(call) == [kind |-> "fs error", what |-> call]

\* new Error(text).message
PlainMessage(text) == [kind |-> "Error", what |-> text]

NoError == [kind |-> "", what |-> ""]

\* One entry of report.errors: `${prefix}${error.message}`.
ErrorEntry(prefix, msg) == [prefix |-> prefix, msg |-> msg]

\* One entry of report.steps.  timed: the record has a `duration` field.
\* details names the payload: a literal kind, or the report object the
\* record keeps a reference to ("testReport.execution", ...).
StepRecord(name, st, timed, details) ==
    [step |-> name, status |-> st, timed |-> timed, details |-> details]

\* Directories each script creates or writes into.
DirsOf(p) ==
    CASE p = "build" -> {"build-reports", "dist"}
      [] p = "test" -> {"test-reports", "coverage", "allure-results"}
      [] p = "cibuild" -> {"build-reports", "dist"}
      [] OTHER -> {"test-reports", "coverage"}

\* The directory each script writes its reports to.
ReportDir(p) == IF p \in {"build", "cibuild"} THEN "build-reports" ELSE "test-reports"

\* ------------------------------------------------------------------- state
VARIABLES
    prog,        \* the script being run
    CI,          \* process.env.CI is set
    dirs,        \* directories that exist on disk
    pc,          \* position of the script
    status,      \* buildReport.status / testReport.status
    steps,       \* buildReport.steps / testReport.steps
    errors,      \* buildReport.errors / testReport.errors
    execution,   \* testReport.execution
    coverage,    \* testReport.coverage (without the fixed threshold)
    quality,     \* testReport.quality (evaluated = FALSE: the field is absent)
    buildSteps,  \* buildSteps of the CI build
    results,     \* results of the simulated test run, one per suite run
    thrown,      \* the Error in flight to the outer catch block
    written,     \* files written by the run, in order, with the content
    exitCode,    \* process exit code; -1 while the process runs
    ran,         \* steps started so far with the outcome of their calls
    running,     \* child processes of the script that are alive
    disk,        \* report files on disk: name, time stamp, writing run, complete
    runNo,       \* number of the current run of the script
    response,    \* the last response of the report server
    previous,    \* what the run before this one reported, once remembered
    unit,        \* two counts and what the pass-rate computations make of them
    runner,      \* the automation runner: its child process, ended phases, output
    deploy,      \* the deployment script: tools, images, containers, calls, report
    server       \* the report server: alive, request in progress, responses sent

vars == <<prog, CI, dirs, pc, status, steps, errors, execution, coverage,
          quality, buildSteps, results, thrown, written, exitCode, ran,
          running, disk, runNo, response, previous, unit,
                   runner, deploy, server>>

Metrics == {"statements", "branches", "functions", "lines"}

InitialExecution ==
    [totalTests |-> 0, passed |-> 0, failed |-> 0, skipped |-> 0, executionTime |-> 0]

InitialCoverage == [m \in Metrics |-> 0]

NoQuality == [evaluated |-> FALSE, passRate |-> [num |-> 0, den |-> 1], issues |-> <<>>]

\* No counts were handed to a pass-rate computation.
NoUnit ==
    [passed |-> 0, failed |-> 0, rate |-> <<>>, formatted |-> <<>>,
     output |-> <<>>, parsed |-> <<>>]

\* No run before this one is remembered.
NoPrevious == [known |-> FALSE, ran |-> <<>>, status |-> "UNKNOWN", outline |-> <<>>]

\* No request was answered yet.
NoResponse == [code |-> 0, run |-> 0, complete |-> TRUE]

\* The automation runner before it is started.
NoRunner == [child |-> "none", ended |-> <<>>, log |-> <<>>, ticks |-> 0]

\* The deployment report before it is generated.
NoDeployReport ==
    [status |-> "none", version |-> 0, compose_available |-> "none",
     containers |-> "none"]

\* The deployment script before it is started.
NoDeploy ==
    [tools |-> {}, COMPOSE_CMD |-> "", TIMESTAMP |-> 0, images |-> {}, latest |-> 0,
     containers |-> 0, calls |-> <<>>, invoked |-> <<>>, built |-> "none",
     tests |-> "none", up |-> "none", report |-> NoDeployReport, said |-> {},
     interrupted |-> FALSE]

\* The report server before it is started.
NoServer == [alive |-> FALSE, url |-> "none", handled |-> <<>>]

Init ==
    /\ prog \in Progs
    /\ CI \in BOOLEAN
    /\ dirs \in SUBSET DirsOf(prog)
    /\ pc = "start"
    /\ status = "UNKNOWN"
    /\ steps = <<>>
    /\ errors = <<>>
    /\ execution = InitialExecution
    /\ coverage = InitialCoverage
    /\ quality = NoQuality
    /\ buildSteps = <<>>
    /\ results = <<>>
    /\ thrown = NoError
    /\ written = <<>>
    /\ exitCode = -1
    /\ ran = <<>>
    /\ running = 0
    /\ disk = {}
    /\ runNo = 1
    /\ response = NoResponse
    /\ previous = NoPrevious
    /\ unit = NoUnit
    /\ runner = NoRunner
    /\ deploy = NoDeploy
    /\ server = NoServer

\* The positions at which the script p calls execSync.
ExecSteps(p) ==
    CASE p = "build" -> {"env", "deps", "audit", "lint", "artifacts"}
      [] p = "test" -> {"tests", "coverage"}
      [] p = "cibuild" -> {"env", "install", "audit", "lint", "config"}
      [] OTHER -> {}

\* Outcomes a step only ends with after its child process was started.
ChildOutcomes == {"exit1", "exitN", "killed", "unparsable", "vulnerable", "malformed"}

\* Mutant of ExecSync_Spawn: the child is started without waiting for the
\* one before it (spawn instead of execSync).
ExecSync_Spawn_Detached ==
    /\ pc \in ExecSteps(prog) /\ running < 2
    /\ running' = running + 1
    /\ UNCHANGED <<prog, CI, dirs, pc, status, steps, errors, execution, coverage,
                   quality, buildSteps, results, thrown, written, exitCode, ran,
                   disk, runNo, response, previous, unit,
                   runner, deploy, server>>

\* execSync(command): the child process is started; the script is blocked
\* in the call until the child has ended, so it starts no other.
ExecSync_Spawn ==
    /\ pc \in ExecSteps(prog) /\ running = 0
    /\ running' = 1
    /\ UNCHANGED <<prog, CI, dirs, pc, status, steps, errors, execution, coverage,
                   quality, buildSteps, results, thrown, written, exitCode, ran,
                   disk, runNo, response, previous, unit,
                   runner, deploy, server>>

\* A step ended as o: its child, if one was started, has ended (execSync
\* returned or threw).  A child that could not be spawned never ran; the
\* enhanced build copies the test directory with `cp` only if it exists.
Ran(name, o) ==
    /\ o \in ChildOutcomes => running = 1
    /\ o \in {"spawn", "noconfig"} => running = 0
    /\ (o = "ok" /\ pc \in ExecSteps(prog) /\ ~(prog = "build" /\ pc = "artifacts"))
          => running = 1
    /\ running' = 0
    /\ ran' = Append(ran, [step |-> name, outcome |-> o])

\* process.exit(code): the process ends at once; no finally block runs.
ProcessExit(code) == pc' = "exited" /\ exitCode' = code

\* The script runs off its end: the process ends with code 0.
NormalEnd == pc' = "exited" /\ exitCode' = 0

\* An Error escapes the async function: the promise rejects, nothing handles
\* the rejection, and node 18 ends the process with code 1.
UnhandledRejection == pc' = "exited" /\ exitCode' = 1

\* The content JSON.stringify(report) writes.
Snapshot(file) ==
    [file |-> file, status |-> status, steps |-> steps, errors |-> errors,
     execution |-> execution, coverage |-> coverage, quality |-> quality,
     buildSteps |-> buildSteps]

\* The detail payload seen through a step record: `details:
\* testReport.execution` and `details: testReport.coverage` keep a reference
\* to the report's object, not a copy of it.
StepPayload(rec, exec, cov) ==
    CASE rec.details = "testReport.execution" -> exec
      [] rec.details = "testReport.coverage" -> cov
      [] OTHER -> rec.details

\* `Create ${dir} directory`
CreateDirStep(dir) ==
    IF dir = "build-reports" THEN "Create build-reports directory"
    ELSE "Create dist directory"

\* The directories of the list ds (in order) that do not exist yet.
RECURSIVE Missing(_, _)
Missing(ds, have) ==
    IF ds = <<>> THEN <<>>
    ELSE IF Head(ds) \in have THEN Missing(Tail(ds), have)
         ELSE <<Head(ds)>> \o Missing(Tail(ds), have)

\* The outcomes of a step that also reads or writes files itself: those of
\* its execSync calls, or one of its fs calls throws.
StepOutcomes == ExecOutcomes \cup {"fs"}

StepErrorMessage(o, cmd) ==
    IF o = "fs" THEN FsErrorMessage(cmd) ELSE ErrorMessage(o, cmd)

\* Writing a file into dir throws when dir does not exist, and may throw
\* for other reasons (disk full, permissions) when it does.
WriteOutcomes(dir) == IF dir \in dirs THEN {"ok", "throws"} ELSE {"throws"}

\* `build-report-${Date.now()}.json`, the one file name that carries the
\* time of the run
StampedJson == "build-report-<now>.json"

\* The file a written document is on disk.  Time moves on between two runs,
\* so the stamp of a run is its number; a name without a stamp has stamp 0.
FileOf(doc) ==
    [file |-> doc.file, stamp |-> IF doc.file = StampedJson THEN runNo ELSE 0,
     run |-> runNo, complete |-> TRUE]

\* Two entries of the directory are the same file.
SameFile(f, g) == f.file = g.file /\ f.stamp = g.stamp

\* The directory d after the documents new has beyond old were written:
\* writeFileSync replaces a file of the same name and adds any other.
Stored(d, old, new) ==
    LET docs == {FileOf(new[i]) : i \in (Len(old) + 1)..Len(new)}
    IN {f \in d : \A g \in docs : ~SameFile(f, g)} \cup docs

\* The structured and the HTML report of an enhanced script.
JsonName(p) == IF p = "build" THEN StampedJson ELSE "test-summary.json"
HtmlName(p) == IF p = "build" THEN "build-report.html" ELSE "test-report.html"

\* fs.writeFileSync of the HTML report, its first half: the structured
\* report is written, then the HTML file is opened with truncation (flag
\* 'w'), which leaves it empty on disk until the content is written.
WriteFileSync_Open ==
    /\ prog \in {"build", "test"} /\ pc = "finally"
    /\ ReportDir(prog) \in dirs
    /\ written' = Append(written, Snapshot(JsonName(prog)))
    /\ LET html == [file |-> HtmlName(prog), stamp |-> 0, run |-> runNo,
                    complete |-> FALSE]
       IN disk' = {f \in Stored(disk, written, written') : ~SameFile(f, html)}
                     \cup {html}
    /\ pc' = "html"
    /\ UNCHANGED <<prog, CI, dirs, status, steps, errors, execution, coverage,
                   quality, buildSteps, results, thrown, exitCode, ran, running,
                   runNo, response, previous, unit,
                   runner, deploy, server>>

\* =================================================== enhanced build script
\* generateBuildReport, "Create build directories"
GBR_CreateDirs ==
    /\ prog = "build" /\ pc = "start"
    /\ LET missing == Missing(<<"build-reports", "dist">>, dirs) IN
       \E k \in 0..Len(missing) :
          LET made == SubSeq(missing, 1, k) IN
          /\ dirs' = dirs \cup {made[i] : i \in 1..k}
          /\ steps' = steps \o
                [i \in 1..k |-> StepRecord(CreateDirStep(made[i]),
                                           "SUCCESS", FALSE, "none")]
          /\ IF k < Len(missing)
             THEN thrown' = FsErrorMessage("mkdirSync") /\ pc' = "catch"
             ELSE thrown' = thrown /\ pc' = "env"
    /\ UNCHANGED <<runner, deploy, server, unit, previous, runNo, response, disk,
                   prog, CI, status, errors, execution, coverage, quality,
                   buildSteps, results, written, exitCode, ran, running>>

\* generateBuildReport, "Step 1: Environment validation"
GBR_EnvValidation ==
    /\ prog = "build" /\ pc = "env"
    /\ \E o \in ExecOutcomes, cmd \in {"node --version", "npm --version"} :
          /\ Ran("Environment validation", o)
          /\ IF o = "ok"
             THEN /\ steps' = Append(steps, StepRecord("Environment validation",
                                                       "SUCCESS", TRUE, "versions"))
                  /\ pc' = "deps"
                  /\ UNCHANGED <<errors, thrown>>
             ELSE /\ errors' = Append(errors,
                        ErrorEntry("Environment validation failed: ", ErrorMessage(o, cmd)))
                  /\ thrown' = ErrorMessage(o, cmd)
                  /\ pc' = "catch"
                  /\ UNCHANGED steps
    /\ UNCHANGED <<runner, deploy, server, unit, previous, runNo, response, disk,
                   prog, CI, dirs, status, execution, coverage, quality,
                   buildSteps, results, written, exitCode>>

\* Mutant of GBR_InstallDeps: a failed installation is recorded as a WARNING
\* and the build goes on, the way the audit and lint steps do.
GBR_InstallDeps_Tolerant ==
    /\ prog = "build" /\ pc = "deps"
    /\ \E o \in StepOutcomes :
          /\ Ran("Dependency installation", o)
          /\ steps' = Append(steps, StepRecord("Dependency installation",
                          IF o = "ok" THEN "SUCCESS" ELSE "WARNING", TRUE,
                          IF o = "ok" THEN "buildReport.dependencies" ELSE "warning"))
          /\ pc' = "audit"
    /\ UNCHANGED <<runner, deploy, server, unit, previous, runNo, response, disk,
                   prog, CI, dirs, status, errors, execution, coverage, quality,
                   buildSteps, results, thrown, written, exitCode>>

\* generateBuildReport, "Step 2: Dependency analysis and installation"
GBR_InstallDeps ==
    /\ prog = "build" /\ pc = "deps"
    /\ \E o \in StepOutcomes :
          LET msg == StepErrorMessage(o, IF o = "fs" THEN "readFileSync package.json"
                                                     ELSE "npm ci") IN
          /\ Ran("Dependency installation", o)
          /\ IF o = "ok"
             THEN /\ steps' = Append(steps, StepRecord("Dependency installation",
                                         "SUCCESS", TRUE, "buildReport.dependencies"))
                  /\ pc' = "audit"
                  /\ UNCHANGED <<errors, thrown>>
             ELSE /\ errors' = Append(errors,
                        ErrorEntry("Dependency installation failed: ", msg))
                  /\ thrown' = msg
                  /\ pc' = "catch"
                  /\ UNCHANGED steps
    /\ UNCHANGED <<runner, deploy, server, unit, previous, runNo, response, disk,
                   prog, CI, dirs, status, execution, coverage, quality,
                   buildSteps, results, written, exitCode>>

\* What `npm audit --json` printed: -1 when JSON.parse throws on it, else
\* metadata.vulnerabilities.total (0 when the field is missing).
AuditTotals == {-1, 0, 3}

\* What the audit step ended as: the outcome of `npm audit --json`, and
\* after exit code 0 whether JSON.parse threw on its output ("unparsable")
\* or the output reports a total above 0 ("vulnerable").
AuditOutcome(o, total) ==
    IF o # "ok" THEN o
    ELSE IF total < 0 THEN "unparsable"
    ELSE IF total > 0 THEN "vulnerable"
    ELSE "ok"

\* Mutant of AuditStatus: the total of the audit output is not looked at.
AuditStatus_ExitOnly(o, total) == IF o = "ok" THEN "SUCCESS" ELSE "WARNING"

\* Status of the 'Security audit' record.
AuditStatus(o, total) ==
    IF o = "ok" /\ total >= 0
    THEN (IF total = 0 THEN "SUCCESS" ELSE "WARNING")
    ELSE "WARNING"

\* Mutant of GBR_SecurityAudit: the record is put in front of the sequence
\* (unshift) instead of at its end (push).
GBR_SecurityAudit_Unshift ==
    /\ prog = "build" /\ pc = "audit"
    /\ \E o \in ExecOutcomes, total \in AuditTotals :
          /\ Ran("Security audit", AuditOutcome(o, total))
          /\ steps' = <<StepRecord("Security audit", AuditStatus(o, total),
                          TRUE, IF o = "ok" /\ total >= 0 THEN "buildReport.security"
                                                          ELSE "warning")>> \o steps
          /\ pc' = "lint"
    /\ UNCHANGED <<runner, deploy, server, unit, previous, runNo, response, disk,
                   prog, CI, dirs, status, errors, execution, coverage, quality,
                   buildSteps, results, thrown, written, exitCode>>

\* generateBuildReport, "Step 3: Security audit"
GBR_SecurityAudit ==
    /\ prog = "build" /\ pc = "audit"
    /\ \E o \in ExecOutcomes, total \in AuditTotals :
          /\ Ran("Security audit", AuditOutcome(o, total))
          /\ steps' = Append(steps, StepRecord("Security audit", AuditStatus(o, total),
                          TRUE, IF o = "ok" /\ total >= 0 THEN "buildReport.security"
                                                          ELSE "warning"))
          /\ pc' = "lint"
    /\ UNCHANGED <<runner, deploy, server, unit, previous, runNo, response, disk,
                   prog, CI, dirs, status, errors, execution, coverage, quality,
                   buildSteps, results, thrown, written, exitCode>>

\* Mutant of LintStatus: a failing lint is recorded as FAILED.
LintStatus_Failed(o) == IF o = "ok" THEN "SUCCESS" ELSE "FAILED"

\* Status of the 'Code quality check' record.
LintStatus(o) == IF o = "ok" THEN "SUCCESS" ELSE "WARNING"

\* Mutant of GBR_Lint: a failing lint also leaves an entry in errors.
GBR_Lint_RecordsError ==
    /\ prog = "build" /\ pc = "lint"
    /\ \E o \in ExecOutcomes :
          /\ Ran("Code quality check", o)
          /\ steps' = Append(steps, StepRecord("Code quality check", LintStatus(o),
                          TRUE, IF o = "ok" THEN "none" ELSE "warning"))
          /\ errors' = IF o = "ok" THEN errors
                       ELSE Append(errors, ErrorEntry("Code quality check failed: ",
                                                      ErrorMessage(o, "npm run lint")))
          /\ pc' = "artifacts"
    /\ UNCHANGED <<runner, deploy, server, unit, previous, runNo, response, disk,
                   prog, CI, dirs, status, execution, coverage, quality,
                   buildSteps, results, thrown, written, exitCode>>

\* generateBuildReport, "Step 4: Code quality checks"
GBR_Lint ==
    /\ prog = "build" /\ pc = "lint"
    /\ \E o \in ExecOutcomes :
          /\ Ran("Code quality check", o)
          /\ steps' = Append(steps, StepRecord("Code quality check", LintStatus(o),
                          TRUE, IF o = "ok" THEN "none" ELSE "warning"))
          /\ pc' = "artifacts"
    /\ UNCHANGED <<runner, deploy, server, unit, previous, runNo, response, disk,
                   prog, CI, dirs, status, errors, execution, coverage, quality,
                   buildSteps, results, thrown, written, exitCode>>

\* generateBuildReport, "Step 5: Build artifacts"
GBR_Artifacts ==
    /\ prog = "build" /\ pc = "artifacts"
    /\ \E o \in StepOutcomes :
          LET msg == StepErrorMessage(o, IF o = "fs" THEN "copyFileSync"
                                                     ELSE "cp -r test dist/") IN
          /\ Ran("Build artifacts creation", o)
          /\ IF o = "ok"
             THEN /\ steps' = Append(steps, StepRecord("Build artifacts creation",
                                         "SUCCESS", TRUE, "artifacts"))
                  /\ pc' = "success"
                  /\ UNCHANGED <<errors, thrown>>
             ELSE /\ errors' = Append(errors, ErrorEntry("Artifact creation failed: ", msg))
                  /\ thrown' = msg
                  /\ pc' = "catch"
                  /\ UNCHANGED steps
    /\ UNCHANGED <<runner, deploy, server, unit, previous, runNo, response, disk,
                   prog, CI, dirs, status, execution, coverage, quality,
                   buildSteps, results, written, exitCode>>

\* generateBuildReport, "Final build status"
GBR_Success ==
    /\ prog = "build" /\ pc = "success"
    /\ status' = "SUCCESS"
    /\ pc' = "finally"
    /\ UNCHANGED <<runner, deploy, server, unit, previous, runNo, response, disk,
                   prog, CI, dirs, steps, errors, execution, coverage, quality,
                   buildSteps, results, thrown, written, exitCode, ran, running>>

\* generateBuildReport, the outer catch block
GBR_Catch ==
    /\ prog = "build" /\ pc = "catch"
    /\ status' = "FAILED"
    /\ errors' = Append(errors, ErrorEntry("", thrown))
    /\ ProcessExit(1)
    /\ UNCHANGED <<runner, deploy, server, unit, previous, runNo, response, disk,
                   prog, CI, dirs, steps, execution, coverage, quality,
                   buildSteps, results, thrown, written, ran, running>>

\* generateBuildReport, the finally block, with generateHTMLReport
GBR_Finally ==
    /\ prog = "build" /\ pc \in {"finally", "html"}
    /\ \E wj \in WriteOutcomes(ReportDir(prog)), wh \in WriteOutcomes(ReportDir(prog)) :
          \* at "html" the structured report is written and the HTML file open
          /\ pc = "html" => wj = "ok"
          /\ IF wj = "throws"
             THEN UnhandledRejection /\ UNCHANGED written
             ELSE IF wh = "throws"
             THEN /\ written' = IF pc = "html" THEN written
                                ELSE Append(written, Snapshot(JsonName(prog)))
                  /\ UnhandledRejection
             ELSE /\ written' = IF pc = "html"
                                THEN Append(written, Snapshot(HtmlName(prog)))
                                ELSE written \o <<Snapshot(JsonName(prog)),
                                                  Snapshot(HtmlName(prog))>>
                  /\ NormalEnd
    /\ disk' = Stored(disk, written, written')
    /\ UNCHANGED <<runner, deploy, server, unit, previous, runNo, response,
                   prog, CI, dirs, status, steps, errors, execution, coverage,
                   quality, buildSteps, results, thrown, ran, running>>

GenerateBuildReport ==
    \/ GBR_CreateDirs \/ GBR_EnvValidation \/ GBR_InstallDeps \/ GBR_SecurityAudit
    \/ GBR_Lint \/ GBR_Artifacts \/ GBR_Success \/ GBR_Catch \/ GBR_Finally

\* ==================================================== enhanced test script
\* Numbers a summary line of the test runner's output can carry.
Counts == {0, 1, 9}

\* One line of captured output: p is the n of an `n passing` match and f the
\* n of an `n failing` match on that line, -1 where the line has no match.
Lines == [p : Counts \cup {-1}, f : Counts \cup {-1}]

RECURSIVE SeqsUpTo(_, _)
SeqsUpTo(S, n) ==
    IF n = 0 THEN {<<>>}
    ELSE LET shorter == SeqsUpTo(S, n - 1) IN
         shorter \cup {Append(q, x) : q \in {r \in shorter : Len(r) = n - 1}, x \in S}

Outputs == SeqsUpTo(Lines, MaxLines)

\* Mutant of parseTestResults: the counts of the summary lines are added
\* up instead of overwritten.
RECURSIVE parseTestResults_Summing(_, _)
parseTestResults_Summing(output, exec) ==
    IF output = <<>>
    THEN [exec EXCEPT !.totalTests = exec.passed + exec.failed]
    ELSE LET line == Head(output)
             e1 == IF line.p >= 0 THEN [exec EXCEPT !.passed = exec.passed + line.p]
                                  ELSE exec
             e2 == IF line.f >= 0 THEN [e1 EXCEPT !.failed = e1.failed + line.f] ELSE e1
         IN parseTestResults_Summing(Tail(output), e2)

\* parseTestResults(output, testReport): the new testReport.execution.
RECURSIVE parseTestResults(_, _)
parseTestResults(output, exec) ==
    IF output = <<>>
    THEN [exec EXCEPT !.totalTests = exec.passed + exec.failed]
    ELSE LET line == Head(output)
             e1 == IF line.p >= 0 THEN [exec EXCEPT !.passed = line.p] ELSE exec
             e2 == IF line.f >= 0 THEN [e1 EXCEPT !.failed = line.f] ELSE e1
         IN parseTestResults(Tail(output), e2)

\* Mutant of IsTestFailure: every non-zero exit status counts as failing
\* tests.
IsTestFailure_AnyStatus(o, exec) == ErrorStatus(o) >= 1 /\ exec.totalTests > 0

\* Mutant of IsTestFailure: the parsed total is not looked at.
IsTestFailure_AnyTotal(o, exec) == ErrorStatus(o) = 1

\* `error.status === 1 && testReport.execution.totalTests > 0`
IsTestFailure(o, exec) == ErrorStatus(o) = 1 /\ exec.totalTests > 0

\* runComprehensiveTests, "Create report directories"
RCT_CreateDirs ==
    /\ prog = "test" /\ pc = "start"
    /\ LET missing == Missing(<<"test-reports", "coverage", "allure-results">>, dirs) IN
       \E k \in 0..Len(missing) :
          /\ dirs' = dirs \cup {missing[i] : i \in 1..k}
          /\ IF k < Len(missing)
             THEN thrown' = FsErrorMessage("mkdirSync") /\ pc' = "catch"
             ELSE thrown' = thrown /\ pc' = "env"
    /\ UNCHANGED <<runner, deploy, server, unit, previous, runNo, response, disk,
                   prog, CI, status, steps, errors, execution, coverage, quality,
                   buildSteps, results, written, exitCode, ran, running>>

\* runComprehensiveTests, "Step 1: Validate test environment"
RCT_EnvValidation ==
    /\ prog = "test" /\ pc = "env"
    /\ \E o \in {"ok", "noconfig", "fs"} :
          /\ Ran("Environment validation", o)
          /\ IF o = "ok"
             THEN /\ steps' = Append(steps, StepRecord("Environment validation",
                                                       "SUCCESS", TRUE, "env"))
                  /\ pc' = "tests"
                  /\ UNCHANGED thrown
             ELSE /\ thrown' = IF o = "noconfig"
                               THEN PlainMessage("WebdriverIO configuration not found")
                               ELSE FsErrorMessage("readdirSync test/specs")
                  /\ pc' = "catch"
                  /\ UNCHANGED steps
    /\ UNCHANGED <<runner, deploy, server, unit, previous, runNo, response, disk,
                   prog, CI, dirs, status, errors, execution, coverage, quality,
                   buildSteps, results, written, exitCode>>

\* runComprehensiveTests, "Step 2: Run tests with coverage"
RCT_TestExecution ==
    /\ prog = "test" /\ pc = "tests"
    /\ \E o \in ExecOutcomes, output \in Outputs :
          \* a child that was never spawned printed nothing
          /\ o = "spawn" => output = <<>>
          /\ Ran("Test execution", o)
          /\ LET parsed == IF o = "ok" \/ output # <<>>
                           THEN parseTestResults(output, execution)
                           ELSE execution
             IN /\ execution' = parsed
                /\ IF o = "ok"
                   THEN /\ steps' = Append(steps, StepRecord("Test execution", "SUCCESS",
                                                   TRUE, "testReport.execution"))
                        /\ pc' = "coverage"
                        /\ UNCHANGED thrown
                   ELSE IF IsTestFailure(o, parsed)
                   THEN /\ steps' = Append(steps, StepRecord("Test execution", "PARTIAL",
                                                   TRUE, "testReport.execution"))
                        /\ pc' = "coverage"
                        /\ UNCHANGED thrown
                   ELSE /\ thrown' = ErrorMessage(o, "nyc wdio run wdio.conf.js")
                        /\ pc' = "catch"
                        /\ UNCHANGED steps
    /\ UNCHANGED <<runner, deploy, server, unit, previous, runNo, response, disk,
                   prog, CI, dirs, status, errors, coverage, quality,
                   buildSteps, results, written, exitCode>>

\* A pct of the coverage summary that is not a number: the string "Unknown"
\* istanbul writes for a total of 0 items, or a missing field (undefined).
NotANumber == -1

\* What the pct fields of a coverage-summary document can carry.
CoverageValues == {79, 80, 100, NotANumber}

\* runComprehensiveTests, "Step 3: Generate coverage reports".  After a
\* successful `nyc report`, coverage/coverage-summary.json is missing (the
\* coverage keeps its zeros), or JSON.parse or the field reads throw on it,
\* or it carries the four percentages.
RCT_Coverage ==
    /\ prog = "test" /\ pc = "coverage"
    /\ \/ \E o \in ExecOutcomes \ {"ok"} :
             /\ Ran("Coverage report generation", o)
             /\ steps' = Append(steps, StepRecord("Coverage report generation",
                                                  "WARNING", TRUE, "warning"))
             /\ UNCHANGED coverage
       \/ /\ Ran("Coverage report generation", "malformed")
          /\ steps' = Append(steps, StepRecord("Coverage report generation",
                                               "WARNING", TRUE, "warning"))
          /\ UNCHANGED coverage
       \/ /\ Ran("Coverage report generation", "ok")
          /\ \/ UNCHANGED coverage
             \/ \E pct \in [Metrics -> CoverageValues] : coverage' = pct
          /\ steps' = Append(steps, StepRecord("Coverage report generation",
                                               "SUCCESS", TRUE, "testReport.coverage"))
    /\ pc' = "quality"
    /\ UNCHANGED <<runner, deploy, server, unit, previous, runNo, response, disk,
                   prog, CI, dirs, status, errors, execution, quality,
                   buildSteps, results, thrown, written, exitCode>>

\* Object.keys(testReport.coverage.threshold)
MetricOrder == <<"statements", "branches", "functions", "lines">>

\* Mutant of BelowThreshold: a value at the threshold counts as below it.
BelowThreshold_Inclusive(v, t) == v <= t

\* `testReport.coverage[metric] < testReport.coverage.threshold[metric]`;
\* the comparison of a value that is not a number with a number is false.
BelowThreshold(v, t) == v # NotANumber /\ v < t

\* `${metric} coverage ${v}% below threshold ${t}%`
CoverageIssue(metric, v, t) ==
    [kind |-> "coverage below threshold", metric |-> metric, actual |-> v, threshold |-> t]

\* The issues the forEach over the thresholds pushes, in order.
RECURSIVE CoverageIssues(_, _)
CoverageIssues(order, cov) ==
    IF order = <<>> THEN <<>>
    ELSE (IF BelowThreshold(cov[Head(order)], CoverageThreshold)
          THEN <<CoverageIssue(Head(order), cov[Head(order)], CoverageThreshold)>>
          ELSE <<>>)
         \o CoverageIssues(Tail(order), cov)

\* passRate, kept exact as the fraction num/den (percent).
PassRate(exec) ==
    IF exec.totalTests > 0
    THEN [num |-> exec.passed * 100, den |-> exec.totalTests]
    ELSE [num |-> 0, den |-> 1]

\* `passRate < 90`
PassRateLow(rate) == rate.num < PassRateThreshold * rate.den

\* passRate.toFixed(1), in tenths of a percent
ToFixed1(rate) == (2 * 10 * rate.num + rate.den) \div (2 * rate.den)

\* Mutant of formatTestResult: the rate is cut, not rounded, to one decimal.
formatTestResult_Truncating(passed, failed) ==
    LET total == passed + failed
        passRate == IF total > 0 THEN [num |-> passed * 100, den |-> total]
                    ELSE [num |-> 0, den |-> 1]
    IN [total |-> total, passed |-> passed, failed |-> failed,
        passRate |-> (10 * passRate.num) \div passRate.den]

\* formatTestResult(passed, failed); passRate.toFixed(1) is kept as the
\* number of tenths of a percent it prints.
formatTestResult(passed, failed) ==
    LET total == passed + failed
        passRate == IF total > 0 THEN [num |-> passed * 100, den |-> total]
                    ELSE [num |-> 0, den |-> 1]
    IN [total |-> total, passed |-> passed, failed |-> failed,
        passRate |-> ToFixed1(passRate)]

\* `Test pass rate ${passRate.toFixed(1)}% below 90%`
PassRateIssue(rate) ==
    [kind |-> "pass rate below", metric |-> "", actual |-> ToFixed1(rate),
     threshold |-> PassRateThreshold]

\* qualityIssues at the end of the quality assessment.
QualityIssues(cov, exec) ==
    CoverageIssues(MetricOrder, cov)
    \o (IF PassRateLow(PassRate(exec)) THEN <<PassRateIssue(PassRate(exec))>> ELSE <<>>)

\* Mutant of QualityStatus: quality issues fail the run.
QualityStatus_Failing(issues) == IF Len(issues) = 0 THEN "SUCCESS" ELSE "FAILED"

\* testReport.status as the quality assessment sets it.
QualityStatus(issues) == IF Len(issues) = 0 THEN "SUCCESS" ELSE "PARTIAL"

\* runComprehensiveTests, "Step 4: Quality assessment" and "Final summary"
RCT_Quality ==
    /\ prog = "test" /\ pc = "quality"
    /\ LET issues == QualityIssues(coverage, execution) IN
       /\ quality' = [evaluated |-> TRUE, passRate |-> PassRate(execution),
                      issues |-> issues]
       /\ status' = QualityStatus(issues)
    /\ execution' = [execution EXCEPT !.executionTime = 1]
    /\ pc' = "finally"
    /\ UNCHANGED <<runner, deploy, server, unit, previous, runNo, response, disk,
                   prog, CI, dirs, steps, errors, coverage, buildSteps, results,
                   thrown, written, exitCode, ran, running>>

\* Mutant of RCT_Catch: in CI the handled failure falls through to the
\* quality assessment instead of leaving the try statement.
RCT_Catch_FallThrough ==
    /\ prog = "test" /\ pc = "catch"
    /\ status' = "FAILED"
    /\ errors' = Append(errors, ErrorEntry("", thrown))
    /\ IF ~CI THEN ProcessExit(1) ELSE pc' = "quality" /\ UNCHANGED exitCode
    /\ UNCHANGED <<runner, deploy, server, unit, previous, runNo, response, disk,
                   prog, CI, dirs, steps, execution, coverage, quality,
                   buildSteps, results, thrown, written, ran, running>>

\* runComprehensiveTests, the outer catch block
RCT_Catch ==
    /\ prog = "test" /\ pc = "catch"
    /\ status' = "FAILED"
    /\ errors' = Append(errors, ErrorEntry("", thrown))
    /\ IF ~CI THEN ProcessExit(1) ELSE pc' = "finally" /\ UNCHANGED exitCode
    /\ UNCHANGED <<runner, deploy, server, unit, previous, runNo, response, disk,
                   prog, CI, dirs, steps, execution, coverage, quality,
                   buildSteps, results, thrown, written, ran, running>>

\* runComprehensiveTests, the finally block: generateComprehensiveTestReport
RCT_Finally ==
    /\ prog = "test" /\ pc \in {"finally", "html"}
    /\ \E wj \in WriteOutcomes(ReportDir(prog)), wh \in WriteOutcomes(ReportDir(prog)) :
          \* at "html" the structured report is written and the HTML file open
          /\ pc = "html" => wj = "ok"
          /\ IF wj = "throws"
             THEN UnhandledRejection /\ UNCHANGED written
             ELSE IF wh = "throws"
             THEN /\ written' = IF pc = "html" THEN written
                                ELSE Append(written, Snapshot(JsonName(prog)))
                  /\ UnhandledRejection
             ELSE /\ written' = IF pc = "html"
                                THEN Append(written, Snapshot(HtmlName(prog)))
                                ELSE written \o <<Snapshot(JsonName(prog)),
                                                  Snapshot(HtmlName(prog))>>
                  /\ NormalEnd
    /\ disk' = Stored(disk, written, written')
    /\ UNCHANGED <<runner, deploy, server, unit, previous, runNo, response,
                   prog, CI, dirs, status, steps, errors, execution, coverage,
                   quality, buildSteps, results, thrown, ran, running>>

RunComprehensiveTests ==
    \/ RCT_CreateDirs \/ RCT_EnvValidation \/ RCT_TestExecution \/ RCT_Coverage
    \/ RCT_Quality \/ RCT_Catch \/ RCT_Finally

\* ========================================================= CI build script
\* Mutant of executeCommand: execSync without the try/catch around it.
executeCommand_Throwing(o) == [raised |-> o # "ok", success |-> o = "ok"]

\* executeCommand(command, description) of the CI build: execSync inside
\* try/catch; the catch returns { success: false } and raises nothing.
executeCommand(o) == [raised |-> FALSE, success |-> o = "ok"]

\* executeCommand(command, description) of the simplified build: a promise
\* that the exec callback resolves with { error: true } or { error: false }
\* and never rejects.  The script defines it and never calls it.
executeCommandPromise(o) == [settled |-> "resolved", value |-> [error |-> o # "ok"]]

\* build, "Step 1: Environment validation"
Build_EnvValidation ==
    /\ prog = "cibuild" /\ pc = "start"
    /\ \E o1 \in ExecOutcomes, o2 \in ExecOutcomes :
          LET nodeCheck == executeCommand(o1)
              npmCheck == executeCommand(o2)
          IN /\ Ran("Environment validation", IF o1 # "ok" THEN o1 ELSE o2)
             /\ IF nodeCheck.raised \/ npmCheck.raised
                THEN /\ thrown' = IF nodeCheck.raised
                                  THEN ErrorMessage(o1, "node --version")
                                  ELSE ErrorMessage(o2, "npm --version")
                     /\ pc' = "catch"
                     /\ UNCHANGED buildSteps
                ELSE IF ~nodeCheck.success \/ ~npmCheck.success
                THEN /\ thrown' = PlainMessage("Environment validation failed")
                     /\ pc' = "catch"
                     /\ UNCHANGED buildSteps
                ELSE /\ buildSteps' = Append(buildSteps, "Environment validated")
                     /\ pc' = "clean"
                     /\ UNCHANGED thrown
    /\ UNCHANGED <<runner, deploy, server, unit, previous, runNo, response, disk,
                   prog, CI, dirs, status, steps, errors, execution, coverage,
                   quality, results, written, exitCode>>

\* build, "Step 2: Clean previous builds"
Build_Clean ==
    /\ prog = "cibuild" /\ pc = "clean"
    /\ \/ /\ dirs' = dirs \cup {"dist", "build-reports"}
          /\ buildSteps' = Append(buildSteps, "Previous builds cleaned")
          /\ pc' = "install"
          /\ UNCHANGED thrown
       \/ \E call \in {"rmSync", "mkdirSync dist", "mkdirSync build-reports"} :
             /\ call = "rmSync" => "dist" \in dirs
             /\ dirs' = CASE call = "rmSync" -> dirs
                          [] call = "mkdirSync dist" -> dirs \ {"dist"}
                          [] OTHER -> dirs \cup {"dist"}
             /\ thrown' = FsErrorMessage(call)
             /\ pc' = "catch"
             /\ UNCHANGED buildSteps
    /\ UNCHANGED <<runner, deploy, server, unit, previous, runNo, response, disk,
                   prog, CI, status, steps, errors, execution, coverage,
                   quality, results, written, exitCode, ran, running>>

\* build, "Step 3: Install dependencies"
Build_Install ==
    /\ prog = "cibuild" /\ pc = "install"
    /\ \E o \in ExecOutcomes :
          LET installResult == executeCommand(o) IN
          /\ Ran("Dependency installation", o)
          /\ IF installResult.raised
             THEN /\ thrown' = ErrorMessage(o, "npm ci")
                  /\ pc' = "catch"
                  /\ UNCHANGED buildSteps
             ELSE IF ~installResult.success
             THEN /\ thrown' = PlainMessage("Dependency installation failed")
                  /\ pc' = "catch"
                  /\ UNCHANGED buildSteps
             ELSE /\ buildSteps' = Append(buildSteps, "Dependencies installed")
                  /\ pc' = "audit"
                  /\ UNCHANGED thrown
    /\ UNCHANGED <<runner, deploy, server, unit, previous, runNo, response, disk,
                   prog, CI, dirs, status, steps, errors, execution, coverage,
                   quality, results, written, exitCode>>

\* A build whose security audit is fatal: a failing `npm audit` throws as a
\* failing `npm ci` does.
Build_Audit_Fatal ==
    /\ prog = "cibuild" /\ pc = "audit"
    /\ \E o \in ExecOutcomes :
          /\ Ran("Security audit", o)
          /\ IF o # "ok"
             THEN /\ thrown' = PlainMessage("Security audit failed")
                  /\ pc' = "catch"
                  /\ UNCHANGED buildSteps
             ELSE /\ buildSteps' = Append(buildSteps, "Security audit completed")
                  /\ pc' = "lint"
                  /\ UNCHANGED thrown
    /\ UNCHANGED <<runner, deploy, server, unit, previous, runNo, response, disk,
                   prog, CI, dirs, status, steps, errors, execution, coverage,
                   quality, results, written, exitCode>>

\* build, "Step 4: Security audit"
Build_Audit ==
    /\ prog = "cibuild" /\ pc = "audit"
    /\ \E o \in ExecOutcomes :
          LET auditResult == executeCommand(o) IN
          /\ Ran("Security audit", o)
          /\ IF auditResult.raised
             THEN /\ thrown' = ErrorMessage(o, "npm audit --audit-level=moderate")
                  /\ pc' = "catch"
                  /\ UNCHANGED buildSteps
             ELSE /\ buildSteps' = Append(buildSteps, "Security audit completed")
                  /\ pc' = "lint"
                  /\ UNCHANGED thrown
    /\ UNCHANGED <<runner, deploy, server, unit, previous, runNo, response, disk,
                   prog, CI, dirs, status, steps, errors, execution, coverage,
                   quality, results, written, exitCode>>

\* build, "Step 5: Code linting"
Build_Lint ==
    /\ prog = "cibuild" /\ pc = "lint"
    /\ \E o \in ExecOutcomes :
          LET lintResult == executeCommand(o) IN
          /\ Ran("Code quality check", o)
          /\ IF lintResult.raised
             THEN /\ thrown' = ErrorMessage(o, "npm run lint")
                  /\ pc' = "catch"
                  /\ UNCHANGED buildSteps
             ELSE IF ~lintResult.success
             THEN /\ thrown' = PlainMessage("Code quality checks failed")
                  /\ pc' = "catch"
                  /\ UNCHANGED buildSteps
             ELSE /\ buildSteps' = Append(buildSteps, "Code quality checks passed")
                  /\ pc' = "config"
                  /\ UNCHANGED thrown
    /\ UNCHANGED <<runner, deploy, server, unit, previous, runNo, response, disk,
                   prog, CI, dirs, status, steps, errors, execution, coverage,
                   quality, results, written, exitCode>>

\* build, Steps 6 to 8: configuration, copy to dist, build manifest.  The
\* three push 'WebdriverIO configuration validated', 'Source code compiled'
\* and 'Build artifacts created'; a throwing fs call or the failing
\* `npm --version` of the manifest ends the sequence at its step.
Build_Package ==
    /\ prog = "cibuild" /\ pc = "config"
    /\ \E done \in 0..3, o \in StepOutcomes :
          LET names == <<"WebdriverIO configuration validated", "Source code compiled",
                         "Build artifacts created">>
          IN /\ o = "ok" <=> done = 3
             /\ o \in ExecOutcomes \ {"ok"} => done = 2
             /\ Ran("Build artifacts creation", o)
             /\ buildSteps' = buildSteps \o SubSeq(names, 1, done)
             /\ IF done = 3
                THEN pc' = "report" /\ UNCHANGED thrown
                ELSE /\ thrown' = StepErrorMessage(o, IF o = "fs" THEN "writeFileSync"
                                                              ELSE "npm --version")
                     /\ pc' = "catch"
    /\ UNCHANGED <<runner, deploy, server, unit, previous, runNo, response, disk,
                   prog, CI, dirs, status, steps, errors, execution, coverage,
                   quality, results, written, exitCode>>

\* build, "Generate build report" and process.exit(0)
Build_Report ==
    /\ prog = "cibuild" /\ pc = "report"
    /\ status' = "SUCCESS"
    /\ \E w \in WriteOutcomes(ReportDir(prog)) :
          IF w = "ok"
          THEN /\ written' = Append(written,
                      [Snapshot("build-report.json") EXCEPT !.status = "SUCCESS"])
               /\ ProcessExit(0)
               /\ UNCHANGED thrown
          ELSE /\ thrown' = FsErrorMessage("writeFileSync build-report.json")
               /\ pc' = "catch"
               /\ UNCHANGED <<written, exitCode>>
    /\ disk' = Stored(disk, written, written')
    /\ UNCHANGED <<runner, deploy, server, unit, previous, runNo, response,
                   prog, CI, dirs, steps, errors, execution, coverage,
                   quality, buildSteps, results, ran, running>>

\* build, the catch block
Build_Catch ==
    /\ prog = "cibuild" /\ pc = "catch"
    /\ status' = "FAILED"
    /\ errors' = <<ErrorEntry("", thrown)>>
    /\ \E w \in WriteOutcomes(ReportDir(prog)) :
          IF w = "ok"
          THEN /\ written' = Append(written,
                      [Snapshot("build-error.json") EXCEPT
                          !.status = "FAILED", !.errors = <<ErrorEntry("", thrown)>>])
               /\ ProcessExit(1)
          ELSE UnhandledRejection /\ UNCHANGED written
    /\ disk' = Stored(disk, written, written')
    /\ UNCHANGED <<runner, deploy, server, unit, previous, runNo, response,
                   prog, CI, dirs, steps, execution, coverage, quality,
                   buildSteps, results, thrown, ran, running>>

Build ==
    \/ Build_EnvValidation \/ Build_Clean \/ Build_Install \/ Build_Audit
    \/ Build_Lint \/ Build_Package \/ Build_Report \/ Build_Catch

\* ================================================== simulated test script
\* testSuites: the status of every test of every suite.
testSuites ==
    << <<"passed", "passed", "passed", "passed", "failed">>,
       <<"passed", "passed", "passed", "skipped">>,
       <<"passed", "passed", "skipped", "passed">>,
       <<"passed", "passed", "passed", "failed">> >>

\* Number of tests of the suite with status st.
CountStatus(suite, st) == Cardinality({i \in 1..Len(suite) : suite[i] = st})

\* runTestSuite(suite)
runTestSuite(suite) ==
    [passed |-> CountStatus(suite, "passed"), failed |-> CountStatus(suite, "failed"),
     skipped |-> CountStatus(suite, "skipped"), total |-> Len(suite)]

\* results.reduce(...): the sums over the suites run.
RECURSIVE Totals(_)
Totals(rs) ==
    IF rs = <<>> THEN [passed |-> 0, failed |-> 0, skipped |-> 0, total |-> 0]
    ELSE LET t == Totals(Tail(rs)) IN
         [passed |-> Head(rs).passed + t.passed, failed |-> Head(rs).failed + t.failed,
          skipped |-> Head(rs).skipped + t.skipped, total |-> Head(rs).total + t.total]

\* runTests, "Step 1: Create report directories"
RunTests_Setup ==
    /\ prog = "simtest" /\ pc = "start"
    /\ LET missing == Missing(<<"test-reports", "coverage">>, dirs) IN
       \E k \in 0..Len(missing) :
          /\ dirs' = dirs \cup {missing[i] : i \in 1..k}
          /\ IF k < Len(missing)
             THEN thrown' = FsErrorMessage("mkdirSync") /\ pc' = "catch"
             ELSE thrown' = thrown /\ pc' = "suites"
    /\ UNCHANGED <<runner, deploy, server, unit, previous, runNo, response, disk,
                   prog, CI, status, steps, errors, execution, coverage, quality,
                   buildSteps, results, written, exitCode, ran, running>>

\* runTests, "Step 2: Run test suites", one turn of the loop
RunTests_Suite ==
    /\ prog = "simtest" /\ pc = "suites"
    /\ results' = Append(results, runTestSuite(testSuites[Len(results) + 1]))
    /\ pc' = IF Len(results) + 1 = Len(testSuites) THEN "report" ELSE "suites"
    /\ UNCHANGED <<runner, deploy, server, unit, previous, runNo, response, disk,
                   prog, CI, dirs, status, steps, errors, execution, coverage,
                   quality, buildSteps, thrown, written, exitCode, ran, running>>

\* testReport.status of the simulated run
SimStatus(t) == IF t.failed = 0 THEN "SUCCESS" ELSE "FAILURE"

\* runTests, "Step 5: Generate test report"
RunTests_Report ==
    /\ prog = "simtest" /\ pc = "report"
    /\ status' = SimStatus(Totals(results))
    /\ \E wj \in WriteOutcomes(ReportDir(prog)), wh \in WriteOutcomes(ReportDir(prog)) :
          LET json == [Snapshot("test-report.json") EXCEPT
                          !.status = SimStatus(Totals(results))]
              html == [json EXCEPT !.file = "test-report.html"]
          IN IF wj = "throws"
             THEN /\ thrown' = FsErrorMessage("writeFileSync test-report.json")
                  /\ pc' = "catch"
                  /\ UNCHANGED written
             ELSE IF wh = "throws"
             THEN /\ thrown' = FsErrorMessage("writeFileSync test-report.html")
                  /\ pc' = "catch"
                  /\ written' = Append(written, json)
             ELSE /\ written' = written \o <<json, html>>
                  /\ pc' = "exit"
                  /\ UNCHANGED thrown
    /\ disk' = Stored(disk, written, written')
    /\ UNCHANGED <<runner, deploy, server, unit, previous, runNo, response,
                   prog, CI, dirs, steps, errors, execution, coverage, quality,
                   buildSteps, results, exitCode, ran, running>>

\* runTests, "Exit with error if tests failed"
RunTests_Exit ==
    /\ prog = "simtest" /\ pc = "exit"
    /\ IF Totals(results).failed > 0 THEN ProcessExit(1) ELSE NormalEnd
    /\ UNCHANGED <<runner, deploy, server, unit, previous, runNo, response, disk,
                   prog, CI, dirs, status, steps, errors, execution, coverage,
                   quality, buildSteps, results, thrown, written, ran, running>>

\* runTests, the catch block
RunTests_Catch ==
    /\ prog = "simtest" /\ pc = "catch"
    /\ ProcessExit(1)
    /\ UNCHANGED <<runner, deploy, server, unit, previous, runNo, response, disk,
                   prog, CI, dirs, status, steps, errors, execution, coverage,
                   quality, buildSteps, results, thrown, written, ran, running>>

RunTests ==
    \/ RunTests_Setup \/ RunTests_Suite \/ RunTests_Report \/ RunTests_Exit
    \/ RunTests_Catch

\* One run of one of the four scripts.
Next ==
    \/ GenerateBuildReport \/ RunComprehensiveTests \/ Build \/ RunTests
    \/ ExecSync_Spawn \/ WriteFileSync_Open

Spec == Init /\ [][Next]_vars

\* ===================================== the reports directory across runs
\* The script is run again (by the pipeline runner, or by hand) over the
\* directories and report files the runs before it left.
Rerun ==
    /\ pc = "exited" /\ runNo < MaxRuns
    /\ runNo' = runNo + 1
    /\ pc' = "start"
    /\ status' = "UNKNOWN"
    /\ steps' = <<>>
    /\ errors' = <<>>
    /\ execution' = InitialExecution
    /\ coverage' = InitialCoverage
    /\ quality' = NoQuality
    /\ buildSteps' = <<>>
    /\ results' = <<>>
    /\ thrown' = NoError
    /\ written' = <<>>
    /\ exitCode' = -1
    /\ ran' = <<>>
    /\ UNCHANGED <<prog, CI, dirs, running, disk, response, previous, unit,
                   runner, deploy, server>>

\* The names and statuses of the step records, as a report shows them.
StepOutline(sq) == [j \in 1..Len(sq) |-> [step |-> sq[j].step, status |-> sq[j].status]]

\* The script is run again after a run that wrote both report documents,
\* and what that run reported is remembered for comparison.
RunAgain ==
    /\ pc = "exited" /\ runNo < MaxRuns /\ Len(written) = 2
    /\ previous' = [known |-> TRUE, ran |-> ran, status |-> status,
                    outline |-> StepOutline(steps)]
    /\ runNo' = runNo + 1
    /\ pc' = "start"
    /\ status' = "UNKNOWN"
    /\ steps' = <<>>
    /\ errors' = <<>>
    /\ execution' = InitialExecution
    /\ coverage' = InitialCoverage
    /\ quality' = NoQuality
    /\ buildSteps' = <<>>
    /\ results' = <<>>
    /\ thrown' = NoError
    /\ written' = <<>>
    /\ exitCode' = -1
    /\ ran' = <<>>
    /\ UNCHANGED <<prog, CI, dirs, running, disk, response, unit,
                   runner, deploy, server>>

\* The routes of the report server that read a report file.
ReportRoutes == {"/build-report", "/test-report"}

\* server.js, the /build-report and /test-report handlers: 200 with what
\* readFileSync finds in the file at this moment, or 404 without the file.
Server_GetReport ==
    /\ \E url \in ReportRoutes :
          LET reportPath == IF url = "/build-report" THEN "build-report.html"
                                                     ELSE "test-report.html"
              found == {f \in disk : f.file = reportPath}
          IN response' = IF found = {}
                         THEN [code |-> 404, run |-> 0, complete |-> TRUE]
                         ELSE LET f == CHOOSE f \in found : TRUE
                              IN [code |-> 200, run |-> f.run, complete |-> f.complete]
    /\ UNCHANGED <<prog, CI, dirs, pc, status, steps, errors, execution, coverage,
                   quality, buildSteps, results, thrown, written, exitCode, ran,
                   running, disk, runNo, previous, unit,
                   runner, deploy, server>>

\* The enhanced scripts, run up to MaxRuns times, with the report server
\* answering requests at any moment.
InitDisk == Init /\ prog \in {"build", "test"}

NextDisk ==
    \/ GenerateBuildReport \/ RunComprehensiveTests
    \/ ExecSync_Spawn \/ WriteFileSync_Open
    \/ Rerun \/ Server_GetReport

SpecDisk == InitDisk /\ [][NextDisk]_vars

\* ============================================= the pass-rate computations
\* Largest count of passed or of failed tests handed to the computations.
MaxCount == 9
\* health-check lines the automation runner prints after the pipeline
MaxTicks == 2
\* time stamps an image tag of the application can carry
MaxTag == 4
\* requests the report server receives
MaxRequests == 2

\* The quality assessment's passRate for the counts of unit.
Quality_PassRate ==
    /\ unit.rate = <<>>
    /\ unit' = [unit EXCEPT !.rate =
                   <<PassRate([InitialExecution EXCEPT
                                  !.passed = unit.passed, !.failed = unit.failed,
                                  !.totalTests = unit.passed + unit.failed])>>]
    /\ UNCHANGED <<prog, CI, dirs, pc, status, steps, errors, execution, coverage,
                   quality, buildSteps, results, thrown, written, exitCode, ran,
                   running, disk, runNo, response, previous,
                   runner, deploy, server>>

\* utils.formatTestResult(passed, failed) for the counts of unit.
FormatTestResult ==
    /\ unit.formatted = <<>>
    /\ unit' = [unit EXCEPT !.formatted = <<formatTestResult(unit.passed, unit.failed)>>]
    /\ UNCHANGED <<prog, CI, dirs, pc, status, steps, errors, execution, coverage,
                   quality, buildSteps, results, thrown, written, exitCode, ran,
                   running, disk, runNo, response, previous,
                   runner, deploy, server>>

\* parseTestResults(output, testReport) on a report whose execution holds
\* the counts of unit, for some captured output.
ParseTestResults ==
    /\ unit.parsed = <<>>
    /\ \E output \in Outputs :
          unit' = [unit EXCEPT
                      !.output = output,
                      !.parsed = <<parseTestResults(output,
                                     [InitialExecution EXCEPT
                                         !.passed = unit.passed, !.failed = unit.failed,
                                         !.totalTests = unit.passed + unit.failed])>>]
    /\ UNCHANGED <<prog, CI, dirs, pc, status, steps, errors, execution, coverage,
                   quality, buildSteps, results, thrown, written, exitCode, ran,
                   running, disk, runNo, response, previous,
                   runner, deploy, server>>

\* The computations, each applied once to counts from 0..MaxCount.
InitUnit ==
    /\ prog = "test" /\ CI = FALSE /\ dirs = {}
    /\ pc = "start"
    /\ status = "UNKNOWN"
    /\ steps = <<>>
    /\ errors = <<>>
    /\ execution = InitialExecution
    /\ coverage = InitialCoverage
    /\ quality = NoQuality
    /\ buildSteps = <<>>
    /\ results = <<>>
    /\ thrown = NoError
    /\ written = <<>>
    /\ exitCode = -1
    /\ ran = <<>>
    /\ running = 0
    /\ disk = {}
    /\ runNo = 1
    /\ response = NoResponse
    /\ previous = NoPrevious
    /\ runner = NoRunner
    /\ deploy = NoDeploy
    /\ server = NoServer
    /\ unit \in [passed : 0..MaxCount, failed : 0..MaxCount, rate : {<<>>},
                  formatted : {<<>>}, output : {<<>>}, parsed : {<<>>}]

NextUnit == Quality_PassRate \/ FormatTestResult \/ ParseTestResults

SpecUnit == InitUnit /\ [][NextUnit]_vars

\* The enhanced build, the script whose report lists the directories it
\* created, run up to MaxRuns times with each run compared to the one before.
InitTwice == Init /\ prog = "build"

NextTwice ==
    \/ GenerateBuildReport \/ ExecSync_Spawn \/ WriteFileSync_Open \/ RunAgain

SpecTwice == InitTwice /\ [][NextTwice]_vars

\* ======================================================= automation runner
\* The state of the two pipelines while another program is the one running.
PipelineIdle ==
    /\ CI = FALSE /\ dirs = {}
    /\ status = "UNKNOWN"
    /\ steps = <<>>
    /\ errors = <<>>
    /\ execution = InitialExecution
    /\ coverage = InitialCoverage
    /\ quality = NoQuality
    /\ buildSteps = <<>>
    /\ results = <<>>
    /\ thrown = NoError
    /\ written = <<>>
    /\ ran = <<>>
    /\ running = 0
    /\ disk = {}
    /\ runNo = 1
    /\ response = NoResponse
    /\ previous = NoPrevious
    /\ unit = NoUnit

\* The script each phase of the runner hands to execSync.
PhaseScript(phase) ==
    IF phase = "build" THEN "build-automation.js" ELSE "test-automation.js"

\* What the catch block of a phase prints.
PhaseWarning(phase) ==
    IF phase = "build" THEN "Build completed with warnings"
                       ELSE "Tests completed with some failures"

\* The header printed when a phase begins.
PhaseHeader(phase) ==
    CASE phase = "build" -> "PHASE 1: BUILD AUTOMATION"
      [] phase = "test" -> "PHASE 2: TEST AUTOMATION"
      [] OTHER -> "PHASE 3: DEPLOYMENT"

NextPhase(phase) == IF phase = "build" THEN "test" ELSE "deployment"

\* The title and the header of phase 1.
Runner_Start ==
    /\ prog = "runner" /\ pc = "start"
    /\ runner' = [runner EXCEPT !.log = Append(@, PhaseHeader("build"))]
    /\ pc' = "build"
    /\ UNCHANGED <<prog, CI, dirs, status, steps, errors, execution, coverage,
                   quality, buildSteps, results, thrown, written, exitCode, ran,
                   running, disk, runNo, response, previous, unit, deploy, server>>

\* execSync of a phase starts the phase's script as a child process.
Runner_ExecSync_Spawn ==
    /\ prog = "runner" /\ pc \in {"build", "test"}
    /\ runner.child = "none"
    /\ runner' = [runner EXCEPT !.child = PhaseScript(pc)]
    /\ UNCHANGED <<prog, CI, dirs, pc, status, steps, errors, execution, coverage,
                   quality, buildSteps, results, thrown, written, exitCode, ran,
                   running, disk, runNo, response, previous, unit, deploy, server>>

\* A runner without the try/catch: the error execSync throws for a failed
\* child is uncaught and ends the runner with code 1.
Runner_ExecSync_Return_Uncaught ==
    /\ prog = "runner" /\ pc \in {"build", "test"}
    /\ \E o \in ExecOutcomes :
          /\ IF o = "spawn" THEN runner.child = "none"
                            ELSE runner.child = PhaseScript(pc)
          /\ runner' = [runner EXCEPT
                 !.child = "none",
                 !.ended = Append(@, [phase |-> pc, outcome |-> o]),
                 !.log = IF o = "ok" THEN Append(@, PhaseHeader(NextPhase(pc))) ELSE @]
          /\ IF o = "ok" THEN pc' = NextPhase(pc) /\ UNCHANGED exitCode
                         ELSE ProcessExit(1)
    /\ UNCHANGED <<prog, CI, dirs, status, steps, errors, execution, coverage,
                   quality, buildSteps, results, thrown, written, ran,
                   running, disk, runNo, response, previous, unit, deploy, server>>

\* execSync of a phase returns when the child has ended, or throws (child
\* exited non-zero, was killed, or could not be spawned); the catch block
\* prints a line, and the header of the next phase follows.
Runner_ExecSync_Return ==
    /\ prog = "runner" /\ pc \in {"build", "test"}
    /\ \E o \in ExecOutcomes :
          /\ IF o = "spawn" THEN runner.child = "none"
                            ELSE runner.child = PhaseScript(pc)
          /\ runner' = [runner EXCEPT
                 !.child = "none",
                 !.ended = Append(@, [phase |-> pc, outcome |-> o]),
                 !.log = (IF o = "ok" THEN @ ELSE Append(@, PhaseWarning(pc)))
                            \o <<PhaseHeader(NextPhase(pc))>>]
    /\ pc' = NextPhase(pc)
    /\ UNCHANGED <<prog, CI, dirs, status, steps, errors, execution, coverage,
                   quality, buildSteps, results, thrown, written, exitCode, ran,
                   running, disk, runNo, response, previous, unit, deploy, server>>

\* Phase 3, the simulated deployment: only lines of output.
Runner_Deployment ==
    /\ prog = "runner" /\ pc = "deployment"
    /\ runner' = [runner EXCEPT !.log = Append(@, "Deployment successful!")]
    /\ pc' = "completed"
    /\ UNCHANGED <<prog, CI, dirs, status, steps, errors, execution, coverage,
                   quality, buildSteps, results, thrown, written, exitCode, ran,
                   running, disk, runNo, response, previous, unit, deploy, server>>

\* The final banner, and setInterval that keeps the process alive.
Runner_Completed ==
    /\ prog = "runner" /\ pc = "completed"
    /\ runner' = [runner EXCEPT !.log = Append(@, "PIPELINE COMPLETED SUCCESSFULLY")]
    /\ pc' = "serving"
    /\ UNCHANGED <<prog, CI, dirs, status, steps, errors, execution, coverage,
                   quality, buildSteps, results, thrown, written, exitCode, ran,
                   running, disk, runNo, response, previous, unit, deploy, server>>

\* The interval callback, every 30 seconds.
Runner_HealthCheck ==
    /\ prog = "runner" /\ pc = "serving"
    /\ runner.ticks < MaxTicks
    /\ runner' = [runner EXCEPT !.ticks = @ + 1,
                                !.log = Append(@, "Health check: Healthy")]
    /\ UNCHANGED <<prog, CI, dirs, pc, status, steps, errors, execution, coverage,
                   quality, buildSteps, results, thrown, written, exitCode, ran,
                   running, disk, runNo, response, previous, unit, deploy, server>>

InitRunner ==
    /\ prog = "runner" /\ pc = "start" /\ exitCode = -1
    /\ PipelineIdle
    /\ runner = NoRunner
    /\ deploy = NoDeploy
    /\ server = NoServer

NextRunner ==
    \/ Runner_Start \/ Runner_ExecSync_Spawn \/ Runner_ExecSync_Return
    \/ Runner_Deployment \/ Runner_Completed \/ Runner_HealthCheck

SpecRunner == InitRunner /\ [][NextRunner]_vars

\* ======================================================= deployment script
\* The two deployment scripts: deploy.sh, and its update for Compose V2.
DeployScripts == {"deploy", "deployV2"}

\* The commands check_prerequisites looks for; "compose" is the `docker
\* compose` plugin, which needs docker.
Tools == {"docker", "compose", "docker-compose", "node", "npm"}

\* The commands whose absence sets missing_deps.
RequiredTools(p) ==
    IF p = "deploy" THEN {"docker", "docker-compose", "node", "npm"}
                    ELSE {"docker", "node", "npm"}

\* COMPOSE_CMD as check_prerequisites of the updated script sets it; the
\* first script has `docker-compose` written out in every call.
DetectCompose(p, tools) ==
    CASE p = "deploy" -> "docker-compose"
      [] "compose" \in tools -> "docker compose"
      [] "docker-compose" \in tools -> "docker-compose"
      [] OTHER -> ""

\* `docker images ${APP_NAME} --format "{{.Tag}}"`: one line per tag, and
\* no line at all without docker.
DockerImagesTags(d) ==
    IF "docker" \notin d.tools THEN {}
    ELSE {[kind |-> "timestamp", stamp |-> n] : n \in d.images}
            \cup (IF d.latest # 0 THEN {[kind |-> "latest", stamp |-> 0]} ELSE {})

\* grep -E '^[0-9]{8}_[0-9]{6}$'
GrepTimestamp(tags) == {t \in tags : t.kind = "timestamp"}

\* sort -r: the time stamps have a fixed width, so the reverse
\* lexicographic order is newest first.
RECURSIVE SortReverse(_)
SortReverse(S) ==
    IF S = {} THEN <<>>
    ELSE LET m == CHOOSE t \in S : \A u \in S : u.stamp <= t.stamp
         IN <<m>> \o SortReverse(S \ {m})

\* tail -n +k: the lines from line k on.
TailFrom(lines, k) == SubSeq(lines, k, Len(lines))

\* head -k: the first k lines, or all of them when there are fewer.
HeadLines(lines, k) == SubSeq(lines, 1, IF Len(lines) < k THEN Len(lines) ELSE k)

\* tail -1: the last line, or nothing.
TailLast(lines) == IF lines = <<>> THEN <<>> ELSE <<lines[Len(lines)]>>

\* The tags the cleanup hands to `docker rmi`.
CleanupTags(d) == TailFrom(SortReverse(GrepTimestamp(DockerImagesTags(d))), 4)

\* previous_tag of rollback: empty, or one tag.
PreviousTag(d) ==
    TailLast(HeadLines(SortReverse(GrepTimestamp(DockerImagesTags(d))), 2))

\* Whether this call of the script's compose command is made at all.
ComposeCalls(p, d, cmds) ==
    IF p = "deploy" \/ d.COMPOSE_CMD # "" THEN cmds ELSE <<>>

\* check_prerequisites
Deploy_CheckPrerequisites ==
    /\ prog \in DeployScripts /\ pc = "start"
    /\ deploy' = [deploy EXCEPT
                    !.calls = Append(@, "check_prerequisites"),
                    !.COMPOSE_CMD = DetectCompose(prog, deploy.tools)]
    /\ IF RequiredTools(prog) \ deploy.tools # {}
       THEN ProcessExit(1)
       ELSE pc' = "build" /\ UNCHANGED exitCode
    /\ UNCHANGED <<prog, CI, dirs, status, steps, errors, execution, coverage,
                   quality, buildSteps, results, thrown, written, ran,
                   running, disk, runNo, response, previous, unit, runner, server>>

\* build_docker_image: `docker build -t app:TIMESTAMP -t app:latest .`
Deploy_BuildDockerImage ==
    /\ prog \in DeployScripts /\ pc = "build"
    /\ \E built \in BOOLEAN :
          IF built
          THEN /\ deploy' = [deploy EXCEPT
                                !.calls = Append(@, "build_docker_image"),
                                !.images = @ \cup {deploy.TIMESTAMP},
                                !.latest = deploy.TIMESTAMP,
                                !.built = "ok"]
               /\ pc' = "tests" /\ UNCHANGED exitCode
          ELSE /\ deploy' = [deploy EXCEPT
                                !.calls = Append(@, "build_docker_image"),
                                !.built = "failed"]
               /\ ProcessExit(1)
    /\ UNCHANGED <<prog, CI, dirs, status, steps, errors, execution, coverage,
                   quality, buildSteps, results, thrown, written, ran,
                   running, disk, runNo, response, previous, unit, runner, server>>

\* The exits of the test container the script tells apart: zero, non-zero.
TestExits == {"ok", "exit1"}

\* A script whose tests gate the deployment: a failing test run exits.
Deploy_RunTests_Gating ==
    /\ prog \in DeployScripts /\ pc = "tests"
    /\ \E o \in TestExits :
          /\ deploy' = [deploy EXCEPT !.calls = Append(@, "run_tests"), !.tests = o]
          /\ IF o = "ok" THEN pc' = "compose" /\ UNCHANGED exitCode
                         ELSE ProcessExit(1)
    /\ UNCHANGED <<prog, CI, dirs, status, steps, errors, execution, coverage,
                   quality, buildSteps, results, thrown, written, ran,
                   running, disk, runNo, response, previous, unit, runner, server>>

\* run_tests: `docker run --rm ... app:latest <test command>`; both
\* branches of the if only print.
Deploy_RunTests ==
    /\ prog \in DeployScripts /\ pc = "tests"
    /\ \E o \in TestExits :
          deploy' = [deploy EXCEPT !.calls = Append(@, "run_tests"), !.tests = o]
    /\ pc' = "compose"
    /\ UNCHANGED <<prog, CI, dirs, status, steps, errors, execution, coverage,
                   quality, buildSteps, results, thrown, written, exitCode, ran,
                   running, disk, runNo, response, previous, unit, runner, server>>

\* deploy_with_compose, up to `compose down`: the updated script returns at
\* once without a compose command; `down` may fail, which neither script
\* looks at.
Deploy_ComposeDown ==
    /\ prog \in DeployScripts /\ pc = "compose"
    /\ IF prog = "deployV2" /\ deploy.COMPOSE_CMD = ""
       THEN /\ deploy' = [deploy EXCEPT !.calls = Append(@, "deploy_with_compose")]
            /\ pc' = "health"
       ELSE /\ \E stopped \in BOOLEAN :
                  deploy' = [deploy EXCEPT
                                !.calls = Append(@, "deploy_with_compose"),
                                !.invoked = Append(@, "down"),
                                !.containers = IF stopped THEN 0 ELSE @]
            /\ pc' = "cleanup"
    /\ UNCHANGED <<prog, CI, dirs, status, steps, errors, execution, coverage,
                   quality, buildSteps, results, thrown, written, exitCode, ran,
                   running, disk, runNo, response, previous, unit, runner, server>>

\* deploy_with_compose, "Remove old images (keep last 3 versions)": xargs
\* runs `docker rmi` once per tag; an rmi that fails (the image is in use)
\* leaves its tag, and `2>/dev/null || true` discards the failure.
Deploy_Cleanup ==
    /\ prog \in DeployScripts /\ pc = "cleanup"
    /\ LET old == CleanupTags(deploy)
           given == {old[i] : i \in 1..Len(old)}
       IN \E removed \in SUBSET given :
             deploy' = [deploy EXCEPT
                          !.images = @ \ {t.stamp : t \in {r \in removed : r.kind = "timestamp"}},
                          !.latest = IF \E r \in removed : r.kind = "latest" THEN 0 ELSE @]
    /\ pc' = "up"
    /\ UNCHANGED <<prog, CI, dirs, status, steps, errors, execution, coverage,
                   quality, buildSteps, results, thrown, written, exitCode, ran,
                   running, disk, runNo, response, previous, unit, runner, server>>

\* A script that goes on after a failed `compose up -d`.
Deploy_ComposeUp_Tolerant ==
    /\ prog \in DeployScripts /\ pc = "up"
    /\ \E started \in BOOLEAN :
          deploy' = [deploy EXCEPT
                        !.invoked = @ \o (IF started THEN <<"up", "ps">> ELSE <<"up">>),
                        !.containers = IF started THEN deploy.latest ELSE @,
                        !.up = IF started THEN "ok" ELSE "failed"]
    /\ pc' = "health"
    /\ UNCHANGED <<prog, CI, dirs, status, steps, errors, execution, coverage,
                   quality, buildSteps, results, thrown, written, exitCode, ran,
                   running, disk, runNo, response, previous, unit, runner, server>>

\* deploy_with_compose, `compose up -d` and the status listing: a failed
\* `up` exits the script with code 1.
Deploy_ComposeUp ==
    /\ prog \in DeployScripts /\ pc = "up"
    /\ \E started \in BOOLEAN :
          IF started
          THEN /\ deploy' = [deploy EXCEPT
                                !.invoked = @ \o <<"up", "ps">>,
                                !.containers = deploy.latest,
                                !.up = "ok"]
               /\ pc' = "health" /\ UNCHANGED exitCode
          ELSE /\ deploy' = [deploy EXCEPT !.invoked = Append(@, "up"),
                                           !.up = "failed"]
               /\ ProcessExit(1)
    /\ UNCHANGED <<prog, CI, dirs, status, steps, errors, execution, coverage,
                   quality, buildSteps, results, thrown, written, ran,
                   running, disk, runNo, response, previous, unit, runner, server>>

\* A health check that asks compose for the services whether or not a
\* compose command was found, as the first script does.
Deploy_HealthCheck_Unguarded ==
    /\ prog \in DeployScripts /\ pc = "health"
    /\ deploy' = [deploy EXCEPT
                    !.calls = Append(@, "health_check"),
                    !.invoked = @ \o <<"ps --services", "ps --services">>]
    /\ pc' = "report"
    /\ UNCHANGED <<prog, CI, dirs, status, steps, errors, execution, coverage,
                   quality, buildSteps, results, thrown, written, exitCode, ran,
                   running, disk, runNo, response, previous, unit, runner, server>>

\* health_check: curl and two `compose ps --services`; every branch only
\* prints.
Deploy_HealthCheck ==
    /\ prog \in DeployScripts /\ pc = "health"
    /\ deploy' = [deploy EXCEPT
                    !.calls = Append(@, "health_check"),
                    !.invoked = @ \o ComposeCalls(prog, deploy,
                                                  <<"ps --services", "ps --services">>)]
    /\ pc' = "report"
    /\ UNCHANGED <<prog, CI, dirs, status, steps, errors, execution, coverage,
                   quality, buildSteps, results, thrown, written, exitCode, ran,
                   running, disk, runNo, response, previous, unit, runner, server>>

\* generate_report "SUCCESS": the containers are what `compose ps --format
\* json` prints, or [] when it fails or is not called; only the updated
\* script writes compose_available.
Deploy_GenerateReport ==
    /\ prog \in DeployScripts /\ pc = "report"
    /\ LET asked == ComposeCalls(prog, deploy, <<"ps --format json">>) IN
       \E listed \in BOOLEAN :
          /\ asked = <<>> => ~listed
          /\ deploy' = [deploy EXCEPT
                !.calls = Append(@, "generate_report"),
                !.invoked = @ \o asked,
                !.report = [status |-> "SUCCESS",
                            version |-> deploy.TIMESTAMP,
                            compose_available |->
                                CASE prog = "deploy" -> "none"
                                  [] deploy.COMPOSE_CMD # "" -> "true"
                                  [] OTHER -> "false",
                            containers |-> IF listed THEN "ps output" ELSE "[]"]]
    /\ pc' = "summary"
    /\ UNCHANGED <<prog, CI, dirs, status, steps, errors, execution, coverage,
                   quality, buildSteps, results, thrown, written, exitCode, ran,
                   running, disk, runNo, response, previous, unit, runner, server>>

\* main, the closing banner and the summary; the script ends.
Deploy_Summary ==
    /\ prog \in DeployScripts /\ pc = "summary"
    /\ NormalEnd
    /\ UNCHANGED <<prog, CI, dirs, status, steps, errors, execution, coverage,
                   quality, buildSteps, results, thrown, written, ran,
                   running, disk, runNo, response, previous, unit, runner, deploy,
                   server>>

\* rollback: re-tag previous_tag as latest and `docker-compose up -d`
\* (whose result is not looked at), or say that there is no previous
\* version.
Rollback(d) ==
    LET previous_tag == PreviousTag(d) IN
    IF previous_tag # <<>>
    THEN {[d EXCEPT !.calls = Append(@, "rollback"),
                    !.latest = previous_tag[1].stamp,
                    !.invoked = Append(@, "up"),
                    !.containers = IF started THEN previous_tag[1].stamp ELSE @,
                    !.said = @ \cup {"Rolling back to version"}]
             : started \in BOOLEAN}
    ELSE {[d EXCEPT !.calls = Append(@, "rollback"),
                    !.said = @ \cup {"No previous version found for rollback"}]}

\* trap ... INT TERM: bash runs the trap when the command in the foreground
\* has ended.  The first script rolls back and exits 1; the updated script
\* only exits 1.
Deploy_Interrupt ==
    /\ prog \in DeployScripts /\ pc # "exited"
    /\ \E d \in (IF prog = "deploy" THEN Rollback(deploy) ELSE {deploy}) :
          deploy' = [d EXCEPT !.interrupted = TRUE]
    /\ ProcessExit(1)
    /\ UNCHANGED <<prog, CI, dirs, status, steps, errors, execution, coverage,
                   quality, buildSteps, results, thrown, written, ran,
                   running, disk, runNo, response, previous, unit, runner, server>>

\* A deployment host: any of the tools may be missing, earlier runs have
\* left images behind, `latest` and the running containers point to one of
\* them or are absent.
InitDeploy ==
    /\ prog \in DeployScripts /\ pc = "start" /\ exitCode = -1
    /\ PipelineIdle
    /\ runner = NoRunner
    /\ server = NoServer
    /\ \E tools \in SUBSET Tools, ts \in 1..MaxTag, images \in SUBSET (1..MaxTag) :
          \E latest \in {0} \cup images, containers \in {0} \cup images :
             /\ "compose" \in tools => "docker" \in tools
             /\ containers \in {0, latest}
             /\ deploy = [NoDeploy EXCEPT
                            !.tools = tools, !.TIMESTAMP = ts, !.images = images,
                            !.latest = latest, !.containers = containers,
                            !.COMPOSE_CMD = IF prog = "deploy" THEN "docker-compose" ELSE ""]

NextDeploy ==
    \/ Deploy_CheckPrerequisites \/ Deploy_BuildDockerImage \/ Deploy_RunTests
    \/ Deploy_ComposeDown \/ Deploy_Cleanup \/ Deploy_ComposeUp
    \/ Deploy_HealthCheck \/ Deploy_GenerateReport \/ Deploy_Summary
    \/ Deploy_Interrupt

SpecDeploy == InitDeploy /\ [][NextDeploy]_vars

\* =========================================================== report server
\* The request paths told apart by the handler; "/other" stands for every
\* path it does not name.
Urls == {"/", "/health", "/build-report", "/test-report", "/other"}

\* reportPath of a report route.
ReportPath(url) ==
    IF url = "/build-report" THEN "build-report.html" ELSE "test-report.html"

\* fs.existsSync(reportPath): true for a file that is there, whatever is
\* in it.
ExistsSync(d, reportPath) == \E f \in d : f.file = reportPath

\* One handled request: the status code and the number of responses sent.
Handled(url, code) == [url |-> url, code |-> code, responses |-> 1]

\* The handler up to its first file-system call: '/', '/health' and unknown
\* paths are answered at once; a report route is answered 404 when
\* existsSync says no, and otherwise goes on to writeHead(200) and
\* readFileSync.
Server_Request ==
    /\ prog = "server" /\ server.alive /\ server.url = "none"
    /\ Len(server.handled) < MaxRequests
    /\ \E url \in Urls :
          CASE url \in {"/", "/health"} ->
                  server' = [server EXCEPT !.handled = Append(@, Handled(url, 200))]
            [] url = "/other" ->
                  server' = [server EXCEPT !.handled = Append(@, Handled(url, 404))]
            [] OTHER ->
                  IF ExistsSync(disk, ReportPath(url))
                  THEN server' = [server EXCEPT !.url = url]
                  ELSE server' = [server EXCEPT !.handled = Append(@, Handled(url, 404))]
    /\ UNCHANGED <<prog, CI, dirs, pc, status, steps, errors, execution, coverage,
                   quality, buildSteps, results, thrown, written, exitCode, ran,
                   running, disk, runNo, response, previous, unit, runner, deploy>>

\* res.end(fs.readFileSync(reportPath)): the file's content at this moment
\* is sent with status 200; when the file is gone readFileSync throws
\* ENOENT inside the 'request' listener, nothing catches it, and the
\* uncaught exception ends the server process with the request unanswered.
Server_ReadFileSync ==
    /\ prog = "server" /\ server.alive /\ server.url \in ReportRoutes
    /\ IF ExistsSync(disk, ReportPath(server.url))
       THEN /\ server' = [server EXCEPT
                            !.url = "none",
                            !.handled = Append(@, Handled(server.url, 200))]
            /\ UNCHANGED <<pc, exitCode, thrown>>
       ELSE /\ server' = [server EXCEPT !.alive = FALSE]
            /\ thrown' = FsErrorMessage("readFileSync")
            /\ ProcessExit(1)
    /\ UNCHANGED <<prog, CI, dirs, status, steps, errors, execution, coverage,
                   quality, buildSteps, results, written, ran,
                   running, disk, runNo, response, previous, unit, runner, deploy>>

\* A pipeline run writes an HTML report: writeFileSync opens the file with
\* truncation, creating it when it is not there.
Report_Open ==
    /\ prog = "server"
    /\ \E file \in {"build-report.html", "test-report.html"} :
          /\ \A f \in disk : f.file = file => f.complete
          /\ disk' = {f \in disk : f.file # file}
                        \cup {[file |-> file, stamp |-> 0, run |-> runNo,
                               complete |-> FALSE]}
    /\ UNCHANGED <<prog, CI, dirs, pc, status, steps, errors, execution, coverage,
                   quality, buildSteps, results, thrown, written, exitCode, ran,
                   running, runNo, response, previous, unit, runner, deploy, server>>

\* writeFileSync, its second half: the content is in the file.
Report_Write ==
    /\ prog = "server"
    /\ \E f \in disk :
          /\ ~f.complete
          /\ disk' = (disk \ {f}) \cup {[f EXCEPT !.complete = TRUE]}
    /\ UNCHANGED <<prog, CI, dirs, pc, status, steps, errors, execution, coverage,
                   quality, buildSteps, results, thrown, written, exitCode, ran,
                   running, runNo, response, previous, unit, runner, deploy, server>>

\* A report file is removed by another process while the server runs: the
\* server holds no lock on it between existsSync and readFileSync.
Report_Unlink ==
    /\ prog = "server"
    /\ \E f \in disk : f.complete /\ disk' = disk \ {f}
    /\ UNCHANGED <<prog, CI, dirs, pc, status, steps, errors, execution, coverage,
                   quality, buildSteps, results, thrown, written, exitCode, ran,
                   running, runNo, response, previous, unit, runner, deploy, server>>

\* server.listen: the server is up, with any of the two reports left on
\* disk by earlier pipeline runs.
InitServer ==
    /\ prog = "server" /\ pc = "start" /\ exitCode = -1
    /\ CI = FALSE /\ dirs = {}
    /\ status = "UNKNOWN"
    /\ steps = <<>>
    /\ errors = <<>>
    /\ execution = InitialExecution
    /\ coverage = InitialCoverage
    /\ quality = NoQuality
    /\ buildSteps = <<>>
    /\ results = <<>>
    /\ thrown = NoError
    /\ written = <<>>
    /\ ran = <<>>
    /\ running = 0
    /\ runNo = 1
    /\ response = NoResponse
    /\ previous = NoPrevious
    /\ unit = NoUnit
    /\ runner = NoRunner
    /\ deploy = NoDeploy
    /\ server = [NoServer EXCEPT !.alive = TRUE]
    /\ \E files \in SUBSET {"build-report.html", "test-report.html"} :
          disk = {[file |-> f, stamp |-> 0, run |-> 1, complete |-> TRUE] : f \in files}

NextServer ==
    \/ Server_Request \/ Server_ReadFileSync
    \/ Report_Open \/ Report_Write \/ Report_Unlink

SpecServer == InitServer /\ [][NextServer]_vars

\* ================================================================== claims
Ended == pc = "exited"

IsJson(file) ==
    file \in {"build-report-<now>.json", "test-summary.json", "build-report.json",
              "build-error.json", "test-report.json"}

IsHtml(file) == file \in {"build-report.html", "test-report.html"}

JsonWritten == {i \in 1..Len(written) : IsJson(written[i].file)}
HtmlWritten == {i \in 1..Len(written) : IsHtml(written[i].file)}

\* The steps of each pipeline, in pipeline order.
PipelineOrder ==
    CASE prog = "test" ->
            <<"Environment validation", "Test execution", "Coverage report generation">>
      [] OTHER ->
            <<"Environment validation", "Dependency installation", "Security audit",
              "Code quality check", "Build artifacts creation">>

\* Position of a step in the pipeline; 0 for the directory records.
StepPos(name) ==
    IF \E k \in 1..Len(PipelineOrder) : PipelineOrder[k] = name
    THEN CHOOSE k \in 1..Len(PipelineOrder) : PipelineOrder[k] = name
    ELSE 0

\* Position of the pipeline step an entry of the CI build's buildSteps
\* belongs to (cleaning belongs to no step of the table; the three packaging
\* entries belong to artifact creation).
CiStepPos(entry) ==
    CASE entry = "Environment validated" -> 1
      [] entry = "Previous builds cleaned" -> 1
      [] entry = "Dependencies installed" -> 2
      [] entry = "Security audit completed" -> 3
      [] entry = "Code quality checks passed" -> 4
      [] OTHER -> 5

NonZeroExits == {"exit1", "exitN"}

\* The process-level system errors: the child was killed or never spawned.
SystemErrors == {"killed", "spawn"}

\* ---------------------------------------------------------------------- C1
\* C1 (as claimed): when a run of the enhanced build or of the enhanced test
\* script has ended, exactly one JSON report and exactly one HTML report
\* have been written, on every path.
C1_FinalizationGuarantee ==
    (prog \in {"build", "test"} /\ Ended) =>
        Cardinality(JsonWritten) = 1 /\ Cardinality(HtmlWritten) = 1

\* ---------------------------------------------------------------------- C2
\* The step started as ran[i] is one the claim calls fatal and it failed.
FatalStepFailed(i) ==
    LET r == ran[i] IN
    /\ r.outcome # "ok"
    /\ CASE prog = "build" ->
               r.step \in {"Environment validation", "Dependency installation",
                           "Build artifacts creation"}
         [] prog = "test" ->
               \/ r.step = "Environment validation"
               \/ /\ r.step = "Test execution"
                  /\ (ErrorStatus(r.outcome) # 1 \/ execution.totalTests = 0)
         [] prog = "cibuild" ->
               r.step \in {"Environment validation", "Dependency installation"}
         [] OTHER -> FALSE

\* No entry of the step sequence sq belongs to a step after position k.
NoLaterEntries(sq, k) == \A j \in 1..Len(sq) : StepPos(sq[j].step) <= k

\* C2: abort-on-fatal.  Once a fatal step has failed, it is the last step
\* ever started, and neither the report in memory nor any report written
\* holds an entry of a later step.
C2_AbortOnFatal ==
    \A i \in 1..Len(ran) :
        FatalStepFailed(i) =>
            /\ i = Len(ran)
            /\ NoLaterEntries(steps, StepPos(ran[i].step))
            /\ \A j \in 1..Len(buildSteps) : CiStepPos(buildSteps[j]) <= StepPos(ran[i].step)
            /\ \A w \in 1..Len(written) :
                  /\ NoLaterEntries(written[w].steps, StepPos(ran[i].step))
                  /\ \A j \in 1..Len(written[w].buildSteps) :
                        CiStepPos(written[w].buildSteps[j]) <= StepPos(ran[i].step)

\* C2 witness: dependency installation failed after environment validation
\* succeeded, and the run has ended.
C2_Witness ==
    /\ Ended /\ Len(ran) = 2
    /\ ran[2].step = "Dependency installation" /\ ran[2].outcome = "exit1"

\* ---------------------------------------------------------------------- C3
HasDegradedStep(sq) ==
    \E j \in 1..Len(sq) : sq[j].status \in {"WARNING", "PARTIAL", "FAILED"}

\* C3 (as claimed): a written report has status SUCCESS only when none of its
\* steps is WARNING, PARTIAL or FAILED and the quality gate found nothing.
C3_StatusOrdering ==
    \A w \in 1..Len(written) :
        (prog \in {"build", "test"} /\ written[w].status = "SUCCESS") =>
            /\ ~HasDegradedStep(written[w].steps)
            /\ Len(written[w].quality.issues) = 0

\* ---------------------------------------------------------------------- C4
\* The issues of the quality result that name metric m.
IssuesFor(m) ==
    {j \in 1..Len(quality.issues) :
        quality.issues[j].kind = "coverage below threshold" /\ quality.issues[j].metric = m}

\* C4: quality gate monotonicity.  After the quality assessment, a metric at
\* or above its threshold has no issue, and a metric below it has exactly one
\* issue, which carries the metric, its value and the threshold; what is
\* reported for a metric is decided by that metric's value alone.
C4_QualityGateMonotonic ==
    (prog = "test" /\ quality.evaluated) =>
        \A m \in Metrics :
            /\ coverage[m] >= CoverageThreshold => IssuesFor(m) = {}
            /\ (coverage[m] # NotANumber /\ coverage[m] < CoverageThreshold) =>
                  /\ Cardinality(IssuesFor(m)) = 1
                  /\ \A j \in IssuesFor(m) :
                        /\ quality.issues[j].actual = coverage[m]
                        /\ quality.issues[j].threshold = CoverageThreshold

\* C4 witness: the assessment ran on one metric exactly at the threshold,
\* one just below it and one well above it.
C4_Witness ==
    /\ prog = "test" /\ quality.evaluated
    /\ coverage["statements"] = 80 /\ coverage["branches"] = 79
    /\ coverage["functions"] = 100

\* ---------------------------------------------------------------------- C5
\* C5: once the quality assessment has run, the status is SUCCESS when it
\* found no issue and PARTIAL otherwise - never FAILED - and the process
\* ends with code 0 unless writing a report document threw.
C5_QualityNeverFails ==
    (prog = "test" /\ quality.evaluated) =>
        /\ status = (IF Len(quality.issues) = 0 THEN "SUCCESS" ELSE "PARTIAL")
        /\ (Ended /\ Len(written) = 2) => exitCode = 0
        /\ \A w \in 1..Len(written) : written[w].status = status

\* C5 witness: a run with coverage and pass-rate violations at once ended
\* with both reports written.
C5_Witness ==
    /\ prog = "test" /\ quality.evaluated /\ Ended /\ Len(written) = 2
    /\ Len(quality.issues) = 5

\* ---------------------------------------------------------------------- C6
\* C6: once the test pipeline has aborted (an Error reached the outer catch
\* block), the quality assessment is not evaluated, the status is FAILED from
\* the catch block on, and every report written says FAILED without a
\* quality result.
C6_AbortSkipsQuality ==
    (prog = "test" /\ thrown # NoError) =>
        /\ ~quality.evaluated
        /\ pc # "catch" => status = "FAILED"
        /\ \A w \in 1..Len(written) :
              written[w].status = "FAILED" /\ ~written[w].quality.evaluated

\* C6 witness: an aborted run in CI went on to write both reports.
C6_Witness ==
    /\ prog = "test" /\ thrown # NoError /\ Ended /\ Len(written) = 2

\* ---------------------------------------------------------------------- C7
\* C7 (as claimed): a step whose subprocess could not be started or was
\* killed aborts the pipeline - it is the last step started, an Error is in
\* flight or handled - and no WARNING record is made for it.
C7_SystemErrorAlwaysFatal ==
    \A i \in 1..Len(ran) :
        (prog \in {"build", "test"} /\ ran[i].outcome \in SystemErrors) =>
            /\ i = Len(ran)
            /\ thrown # NoError
            /\ ~\E j \in 1..Len(steps) :
                  steps[j].step = ran[i].step /\ steps[j].status = "WARNING"

\* ---------------------------------------------------------------------- C8
TestRan == {i \in 1..Len(ran) : ran[i].step = "Test execution"}

TestRecords == {j \in 1..Len(steps) : steps[j].step = "Test execution"}

\* C8: when the test runner ended non-zero, a 'Test execution' record exists
\* only if the parsed total is above zero, and then it is PARTIAL, refers to
\* the parsed counts, and coverage generation and the quality assessment run
\* before the run ends; with a parsed total of zero the run aborts: no later
\* step is started, no quality result exists and the status becomes FAILED.
C8_TestFailureTolerance ==
    \A i \in TestRan :
        (prog = "test" /\ ran[i].outcome # "ok") =>
            /\ TestRecords # {} =>
                  /\ execution.totalTests > 0
                  /\ execution.totalTests = execution.passed + execution.failed
                  /\ \A j \in TestRecords :
                        steps[j].status = "PARTIAL"
                        /\ steps[j].details = "testReport.execution"
                  /\ thrown = NoError
                  /\ pc \in {"finally", "exited"} =>
                        /\ Len(ran) = i + 1
                        /\ ran[i + 1].step = "Coverage report generation"
                        /\ quality.evaluated
            /\ execution.totalTests = 0 =>
                  /\ TestRecords = {}
                  /\ i = Len(ran)
                  /\ thrown # NoError
                  /\ ~quality.evaluated
                  /\ pc # "catch" => status = "FAILED"

\* C8 witness: the runner exited 1 with recognised tests, the failure was
\* tolerated and the run went through to the end.
C8_Witness ==
    /\ prog = "test" /\ Ended /\ quality.evaluated
    /\ \E i \in TestRan : ran[i].outcome = "exit1"
    /\ \E j \in TestRecords : steps[j].status = "PARTIAL"
    /\ execution.failed > 0

\* ---------------------------------------------------------------------- C9
AdvisorySteps == {"Security audit", "Code quality check"}

\* C9 (as claimed): a non-zero exit of the audit or of lint never aborts a
\* build, in the enhanced build and in the CI build alike.
C9_AuditLintNeverAbort ==
    \A i \in 1..Len(ran) :
        (prog \in {"build", "cibuild"} /\ ran[i].step \in AdvisorySteps
            /\ ran[i].outcome \in NonZeroExits /\ i = Len(ran))
        => pc # "catch"

\* C9 (amended): in the enhanced build a non-zero exit of the audit or of
\* lint leaves a WARNING record and the build goes on through artifact
\* creation; in the CI build a non-zero audit is passed over and the build
\* goes on to lint, while a non-zero lint aborts the build with exit code 1.
C9_AuditLintTolerance ==
    \A i \in 1..Len(ran) :
        (ran[i].step \in AdvisorySteps /\ ran[i].outcome \in NonZeroExits) =>
            /\ prog = "build" =>
                  /\ \E j \in 1..Len(steps) :
                        steps[j].step = ran[i].step /\ steps[j].status = "WARNING"
                  /\ i = Len(ran) => (thrown = NoError /\ pc \in {"lint", "artifacts"})
                  /\ pc \in {"catch", "success", "finally", "exited"} =>
                        ran[Len(ran)].step = "Build artifacts creation"
            /\ (prog = "cibuild" /\ ran[i].step = "Security audit") =>
                  /\ i = Len(ran) => (thrown = NoError /\ pc = "lint")
                  /\ i < Len(ran) => ran[i + 1].step = "Code quality check"
            /\ (prog = "cibuild" /\ ran[i].step = "Code quality check") =>
                  /\ i = Len(ran)
                  /\ thrown = PlainMessage("Code quality checks failed")
                  /\ Ended => exitCode = 1

\* C9 witness: the enhanced build ended with code 0 and both reports after
\* the audit and lint both exited non-zero.
C9_Witness ==
    /\ prog = "build" /\ Ended /\ exitCode = 0 /\ Len(written) = 2
    /\ \E i \in 1..Len(ran) : ran[i].step = "Security audit" /\ ran[i].outcome = "exit1"
    /\ \E i \in 1..Len(ran) : ran[i].step = "Code quality check" /\ ran[i].outcome = "exitN"

\* --------------------------------------------------------------------- C10
\* C10 (as claimed), on the runs that wrote both their reports: the process
\* ends with a non-zero code only if the report's status is FAILED.
C10_NonZeroExitOnlyWhenFailed ==
    (Ended /\ exitCode # 0 /\ Cardinality(JsonWritten) = 1 /\ Cardinality(HtmlWritten) = 1)
        => \A w \in 1..Len(written) : written[w].status = "FAILED"

\* --------------------------------------------------------------------- C11
\* The enhanced build ended after environment validation succeeded and
\* dependency installation failed.
InstallFailedAfterEnv ==
    /\ prog = "build" /\ Ended /\ Len(ran) = 2
    /\ ran[1].outcome = "ok"
    /\ ran[2].step = "Dependency installation" /\ ran[2].outcome # "ok"

\* C11 (as claimed): after a failed dependency installation the report is
\* FAILED, holds no step after environment validation, and its errors list
\* holds exactly one entry, 'Dependency installation failed: <cause>'.
C11_InstallFailureReportedOnce ==
    InstallFailedAfterEnv =>
        /\ status = "FAILED"
        /\ NoLaterEntries(steps, 1)
        /\ Len(errors) = 1
        /\ errors[1].prefix = "Dependency installation failed: "

\* --------------------------------------------------------------------- C12
\* C12: errors is non-empty only once an Error is on its way to, or has
\* reached, the outer catch block; a run without such an Error keeps errors
\* empty whatever WARNING/PARTIAL steps and quality issues it has; and from
\* the catch block on a non-empty errors list goes with status FAILED.
C12_ErrorsOnlyOnAbort ==
    (prog \in {"build", "test"}) =>
        /\ thrown = NoError => Len(errors) = 0
        /\ (Len(errors) > 0 /\ pc # "catch") => status = "FAILED"
        /\ \A w \in 1..Len(written) :
              Len(written[w].errors) > 0 => written[w].status = "FAILED"

\* C12 witness: an enhanced build with a WARNING step ended with an empty
\* errors list in its written report.
C12_Witness ==
    /\ prog = "build" /\ Ended /\ Len(written) = 2
    /\ HasDegradedStep(steps) /\ Len(errors) = 0

\* --------------------------------------------------------------------- C13
\* C13 (as claimed): a step that failed fatally has exactly one record in
\* the report's steps, with status FAILED.
C13_FailedStepRecorded ==
    \A i \in 1..Len(ran) :
        (prog \in {"build", "test"} /\ FatalStepFailed(i) /\ pc # "catch") =>
            Cardinality({j \in 1..Len(steps) :
                steps[j].step = ran[i].step /\ steps[j].status = "FAILED"}) = 1

\* --------------------------------------------------------------------- C14
\* C14 (as claimed): no step of the run changes a record already in steps:
\* neither the record nor the detail payload seen through it.
C14_StepRecordsImmutable ==
    [][\A j \in 1..Len(steps) :
          /\ j <= Len(steps')
          /\ steps'[j] = steps[j]
          /\ StepPayload(steps'[j], execution', coverage')
                = StepPayload(steps[j], execution, coverage)]_vars

\* --------------------------------------------------------------------- C15
IsPrefix(sq, tq) == Len(sq) <= Len(tq) /\ SubSeq(tq, 1, Len(sq)) = sq

\* The entries of sq stand in pipeline order, each step at most once, the
\* directory records before every step.
InPipelineOrder(sq) ==
    \A a \in 1..Len(sq), b \in 1..Len(sq) :
        a < b =>
            \/ StepPos(sq[a].step) < StepPos(sq[b].step)
            \/ StepPos(sq[a].step) = 0 /\ StepPos(sq[b].step) = 0

\* C15: steps is append-only and in execution order: every step of a run
\* leaves the old sequence as a prefix of the new one, and the new one in
\* pipeline order.
C15_StepsAppendOnly ==
    [][IsPrefix(steps, steps') /\ InPipelineOrder(steps')]_vars

\* C15 witness: an enhanced build that created both directories and recorded
\* all five steps.
C15_Witness ==
    /\ prog = "build" /\ Len(steps) = 7
    /\ steps[1].step = "Create build-reports directory"
    /\ steps[7].step = "Build artifacts creation"

\* --------------------------------------------------------------------- C16
\* The number of the step the script is at, in the order of its pipeline.
StepNo(pcv) ==
    CASE pcv = "env" -> 1
      [] pcv \in {"deps", "tests", "install"} -> 2
      [] pcv \in {"audit", "coverage"} -> 3
      [] pcv = "lint" -> 4
      [] pcv \in {"artifacts", "config"} -> 5
      [] OTHER -> 0

\* C16: steps run strictly one after the other: at most one child process
\* of the script is alive at any time, and while the child of step n is
\* alive every step before n, and no other, has reached its outcome.
C16_StepsSequential ==
    /\ running <= 1
    /\ running = 1 => (pc \in ExecSteps(prog) /\ Len(ran) = StepNo(pc) - 1)

\* C16 witness: the lint child of the enhanced build is alive after the
\* three steps before it ended.
C16_Witness ==
    /\ prog = "build" /\ pc = "lint" /\ running = 1 /\ Len(ran) = 3

\* --------------------------------------------------------------------- C17
\* C17 (as claimed): every report document written carries status SUCCESS,
\* PARTIAL or FAILED.
C17_WrittenStatusIsVerdict ==
    \A w \in 1..Len(written) : written[w].status \in {"SUCCESS", "PARTIAL", "FAILED"}

\* --------------------------------------------------------------------- C18
\* The run got to its finally block: the enhanced build on success, the
\* enhanced test script after the quality assessment or, in CI, after the
\* catch block.
ReachedFinally ==
    \/ prog = "build" /\ status = "SUCCESS"
    \/ prog = "test" /\ (quality.evaluated \/ (CI /\ Len(errors) > 0))

\* C18 (as claimed): a report write that throws (fewer than two documents
\* written at the end) does not change the exit code: a run that got to
\* its finally block ends with code 0.
C18_RenderFaultSwallowed ==
    (ReachedFinally /\ Ended /\ Len(written) < 2) => exitCode = 0

\* --------------------------------------------------------------------- C19
\* C19 (as claimed): after a run that wrote its reports, the reports
\* directory holds exactly one structured report and one HTML report of the
\* pipeline, each with the content of that run.
C19_OneReportPerKind ==
    (Ended /\ Len(written) = 2) =>
        /\ Cardinality({f \in disk : IsJson(f.file)}) = 1
        /\ Cardinality({f \in disk : IsHtml(f.file)}) = 1
        /\ \A f \in disk : f.run = runNo /\ f.complete

\* --------------------------------------------------------------------- C20
\* C20 (as claimed): a report the server answers with is a complete HTML
\* document, the one of the run before or the new one, never an empty or
\* partial file.
C20_ReaderSeesCompleteReport ==
    response.code = 200 => response.complete

\* --------------------------------------------------------------------- C21
\* C21 (as claimed): a run that received the same sequence of step outcomes
\* as the run before it reports the same status and the same sequence of
\* step names and statuses, whether or not the directories existed before.
C21_Deterministic ==
    (Ended /\ Len(written) = 2 /\ previous.known /\ previous.ran = ran) =>
        /\ status = previous.status
        /\ StepOutline(steps) = previous.outline

\* --------------------------------------------------------------------- C22
\* The output has no line with an `n passing` or `n failing` match.
NoSummary(output) == \A k \in 1..Len(output) : output[k].p < 0 /\ output[k].f < 0

\* The records of the coverage step in steps.
CoverageRecords == {j \in 1..Len(steps) : steps[j].step = "Coverage report generation"}

\* C22 (as claimed): extraction falls back to zeros without changing the
\* step's outcome: output without a summary line parses to passed = failed
\* = total = 0, and after a successful `nyc report` a missing or malformed
\* coverage summary leaves the percentages at 0 and the coverage record at
\* SUCCESS.
C22_ExtractionFallsBack ==
    /\ \A output \in Outputs :
          NoSummary(output) =>
              LET e == parseTestResults(output, InitialExecution)
              IN e.passed = 0 /\ e.failed = 0 /\ e.totalTests = 0
    /\ \A i \in 1..Len(ran) :
          (prog = "test" /\ ran[i].step = "Coverage report generation"
              /\ ran[i].outcome = "malformed") =>
              /\ coverage = InitialCoverage
              /\ \A j \in CoverageRecords : steps[j].status = "SUCCESS"

\* --------------------------------------------------------------------- C23
\* The counts of unit and what was computed from them.
UnitTotal == unit.passed + unit.failed

ViaExecuteCommand ==
    [step : {"Environment validation"}, entry : {"Environment validated"}]
    \cup [step : {"Dependency installation"}, entry : {"Dependencies installed"}]
    \cup [step : {"Code quality check"}, entry : {"Code quality checks passed"}]

\* C24: executeCommand never throws or rejects and its flag says success
\* exactly for exit code 0: a failing command of the CI build never puts
\* its own error in flight (the caller sees the flag and throws an Error of
\* its own, or goes on), the step's entry is pushed exactly when the command
\* exited 0, and the promise of the simplified build always resolves, with
\* error false exactly for exit code 0.
C24_ExecuteCommandTotal ==
    /\ \A o \in ExecOutcomes :
          /\ executeCommandPromise(o).settled = "resolved"
          /\ executeCommandPromise(o).value.error <=> o # "ok"
    /\ prog = "cibuild" =>
          \A i \in 1..Len(ran) :
             /\ (i = Len(ran) /\ ran[i].step # "Build artifacts creation"
                    /\ ran[i].outcome # "ok")
                   => thrown.kind \in {"", "Error"}
             /\ \A v \in ViaExecuteCommand :
                   ran[i].step = v.step =>
                      (ran[i].outcome = "ok"
                          <=> \E k \in 1..Len(buildSteps) : buildSteps[k] = v.entry)

\* C24 witness: `npm ci` of the CI build was killed by the timeout and the
\* build threw its own 'Dependency installation failed'.
C24_Witness ==
    /\ prog = "cibuild" /\ pc = "catch" /\ Len(ran) = 2
    /\ ran[2].step = "Dependency installation" /\ ran[2].outcome = "killed"
    /\ thrown = PlainMessage("Dependency installation failed")

\* --------------------------------------------------------------------- C25
\* C25 (as claimed): every step record of a written report carries a
\* duration, the records of directory creation included.
C25_EveryRecordTimed ==
    \A w \in 1..Len(written) :
        \A j \in 1..Len(written[w].steps) : written[w].steps[j].timed

\* --------------------------------------------------------------------- C26
\* C26 (as claimed): an enhanced test run in CI that ended after a fatal
\* failure wrote both report documents, with status FAILED and the error in
\* errors, and ended with exit code 0.
C26_CiFailureStillReports ==
    (prog = "test" /\ CI /\ Ended /\ thrown # NoError) =>
        /\ Cardinality(JsonWritten) = 1 /\ Cardinality(HtmlWritten) = 1
        /\ \A w \in 1..Len(written) :
              /\ written[w].status = "FAILED"
              /\ written[w].errors = <<ErrorEntry("", thrown)>>
        /\ exitCode = 0

\* --------------------------------------------------------------------- C27
\* The records of the audit step in steps.
AuditRecords == {j \in 1..Len(steps) : steps[j].step = "Security audit"}

\* C27: in the enhanced build the audit step leaves exactly one record,
\* SUCCESS exactly when `npm audit --json` exited 0 with output that parses
\* and reports a total of 0, and WARNING otherwise; no Error is in flight
\* and the code quality step is the next to run.
C27_AuditRecord ==
    \A i \in 1..Len(ran) :
        (prog = "build" /\ ran[i].step = "Security audit") =>
            /\ Cardinality(AuditRecords) = 1
            /\ \A j \in AuditRecords :
                  /\ steps[j].status = "SUCCESS" <=> ran[i].outcome = "ok"
                  /\ steps[j].status \in {"SUCCESS", "WARNING"}
            /\ i = Len(ran) => (pc = "lint" /\ thrown = NoError)
            /\ i < Len(ran) => ran[i + 1].step = "Code quality check"

\* C27 witness: the audit exited 0 reporting vulnerabilities, its record is
\* WARNING, and the code quality step ran after it.
C27_Witness ==
    /\ prog = "build" /\ Len(ran) >= 4
    /\ ran[3].step = "Security audit" /\ ran[3].outcome = "vulnerable"
    /\ ran[4].step = "Code quality check"
    /\ \E j \in AuditRecords : steps[j].status = "WARNING"

\* --------------------------------------------------------------------- C28
\* C28 (as claimed): status SUCCESS of the enhanced test script implies a
\* recognized total above 0, a pass rate of at least 90 percent, and each
\* of the four coverage percentages at 80 or above.
C28_SuccessMeansGatesMet ==
    (prog = "test" /\ status = "SUCCESS") =>
        /\ execution.totalTests > 0
        /\ execution.passed * 100 >= PassRateThreshold * execution.totalTests
        /\ \A m \in Metrics :
              coverage[m] # NotANumber /\ coverage[m] >= CoverageThreshold

\* --------------------------------------------------------------------- C29
\* C29: a failing test runner is tolerated only with exit status 1.  After
\* any other failure (exit code 2 or higher, a kill by signal or timeout, a
\* failed spawn) the run aborts whatever total was parsed: no 'Test
\* execution' record, the Error goes to the catch block, no later step
\* runs, and the status becomes FAILED.
C29_OnlyExitOneTolerated ==
    \A i \in TestRan :
        (prog = "test" /\ ran[i].outcome \in {"exitN", "killed", "spawn"}) =>
            /\ TestRecords = {}
            /\ i = Len(ran)
            /\ thrown = ErrorMessage(ran[i].outcome, "nyc wdio run wdio.conf.js")
            /\ ~quality.evaluated
            /\ IF pc = "catch" THEN status = "UNKNOWN" ELSE status = "FAILED"

\* C29 witness: the runner exited with code 2 after printing a summary
\* with a total above 0, and the run was aborted.
C29_Witness ==
    /\ prog = "test" /\ status = "FAILED" /\ execution.totalTests > 0
    /\ \E i \in TestRan : ran[i].outcome = "exitN"

\* --------------------------------------------------------------------- C30
\* The count parseTestResults ends with: that of the last line of out with
\* a match (field p for 'passing', f for 'failing'), or prev without one.
LastPassing(out, prev) ==
    LET hits == {k \in 1..Len(out) : out[k].p >= 0}
    IN IF hits = {} THEN prev
       ELSE out[CHOOSE k \in hits : \A h \in hits : h <= k].p

LastFailing(out, prev) ==
    LET hits == {k \in 1..Len(out) : out[k].f >= 0}
    IN IF hits = {} THEN prev
       ELSE out[CHOOSE k \in hits : \A h \in hits : h <= k].f

\* C30: after parseTestResults totalTests = passed + failed; passed is the
\* number of the last `n passing` line and failed that of the last `n
\* failing` line, and a count without a matching line keeps its value.
C30_ParseTakesLastMatch ==
    unit.parsed # <<>> =>
        LET e == unit.parsed[1] IN
        /\ e.totalTests = e.passed + e.failed
        /\ e.passed = LastPassing(unit.output, unit.passed)
        /\ e.failed = LastFailing(unit.output, unit.failed)

\* C30 witness: two summary lines with different passing counts and no
\* failing line; the second count won and failed kept its earlier 2.
C30_Witness ==
    /\ unit.parsed # <<>> /\ unit.failed = 2 /\ unit.passed = 5
    /\ Len(unit.output) = 2
    /\ unit.output[1].p = 9 /\ unit.output[2].p = 1
    /\ unit.output[1].f = -1 /\ unit.output[2].f = -1
    /\ unit.parsed[1].passed = 1 /\ unit.parsed[1].failed = 2
    /\ unit.parsed[1].totalTests = 3


\* --------------------------------------------------------------------- C31
\* The error report of the CI build: build-error.json with status FAILED,
\* the message of the error in flight and the entries pushed so far.
CiErrorReports ==
    {i \in 1..Len(written) :
        /\ written[i].file = "build-error.json"
        /\ written[i].status = "FAILED"
        /\ written[i].errors = <<ErrorEntry("", thrown)>>
        /\ written[i].buildSteps = buildSteps}

\* C31 (as claimed): a CI build that ended after a fatal failure has written
\* build-error.json with status FAILED, the error message and the steps
\* completed so far, and exited with code 1, also when the failure came in
\* the first step, before the report directory was created.
C31_FailureAlwaysReported ==
    (prog = "cibuild" /\ Ended /\ thrown # NoError)
        => (exitCode = 1 /\ CiErrorReports # {})

\* --------------------------------------------------------------------- C32
\* The eight entries of a complete CI build, in pipeline order.
CiEightSteps ==
    <<"Environment validated", "Previous builds cleaned", "Dependencies installed",
      "Security audit completed", "Code quality checks passed",
      "WebdriverIO configuration validated", "Source code compiled",
      "Build artifacts created">>

\* The steps of the CI build whose failure is fatal.
CiGates == {"Environment validation", "Dependency installation", "Code quality check"}

CiFilesWritten == {written[i].file : i \in 1..Len(written)}

\* C32: the CI build writes build-report.json (status SUCCESS) and exits 0
\* only after environment validation, dependency installation and lint all
\* succeeded and all eight entries were pushed in pipeline order; a security
\* audit that failed always lets the build go on to lint with no error in
\* flight; build-report.json and build-error.json are never both written.
C32_SuccessOnlyAfterGates ==
    prog = "cibuild" =>
       /\ \A i \in 1..Len(written) :
             written[i].file = "build-report.json" =>
                /\ written[i].status = "SUCCESS"
                /\ written[i].buildSteps = CiEightSteps
                /\ \A g \in CiGates :
                      \E k \in 1..Len(ran) : ran[k].step = g /\ ran[k].outcome = "ok"
                /\ Ended /\ exitCode = 0
       /\ (Ended /\ exitCode = 0) => "build-report.json" \in CiFilesWritten
       /\ (ran # <<>> /\ ran[Len(ran)].step = "Security audit")
             => (pc = "lint" /\ thrown = NoError /\ Len(buildSteps) = 4)
       /\ ~({"build-report.json", "build-error.json"} \subseteq CiFilesWritten)

\* C32 witness: a CI build whose `npm audit` exited non-zero wrote the
\* SUCCESS report and exited 0.
C32_Witness ==
    /\ prog = "cibuild" /\ Ended /\ exitCode = 0
    /\ "build-report.json" \in CiFilesWritten
    /\ \E k \in 1..Len(ran) : ran[k].step = "Security audit" /\ ran[k].outcome = "exit1"


\* --------------------------------------------------------------------- C33
\* The position of a line in the runner's output, 0 when it is not there.
LogPos(line) ==
    IF \E i \in 1..Len(runner.log) : runner.log[i] = line
    THEN CHOOSE i \in 1..Len(runner.log) : runner.log[i] = line
    ELSE 0

\* C33: the runner goes through build, test, deployment in that order: the
\* build script runs only before any phase has ended, the test script only
\* after the build process has ended, and whatever the outcome of a phase
\* the runner is at the next phase right after it; deployment and the final
\* banner come only after both phases ended, in that order, for every pair
\* of outcomes; the runner never exits.
C33_PhasesInOrder ==
    prog = "runner" =>
       /\ exitCode = -1 /\ pc # "exited"
       /\ Len(runner.ended) <= 2
       /\ \A i \in 1..Len(runner.ended) :
             runner.ended[i].phase = <<"build", "test">>[i]
       /\ runner.child = "build-automation.js" => (pc = "build" /\ runner.ended = <<>>)
       /\ runner.child = "test-automation.js" => (pc = "test" /\ Len(runner.ended) = 1)
       /\ Len(runner.ended) = 0 => pc \in {"start", "build"}
       /\ Len(runner.ended) = 1 => (pc = "test" /\ LogPos(PhaseHeader("test")) > 0)
       /\ Len(runner.ended) = 2 =>
             /\ pc \in {"deployment", "completed", "serving"}
             /\ LogPos(PhaseHeader("deployment")) > LogPos(PhaseHeader("test"))
       /\ LogPos("PIPELINE COMPLETED SUCCESSFULLY") > 0 =>
             /\ Len(runner.ended) = 2
             /\ LogPos("PIPELINE COMPLETED SUCCESSFULLY") > LogPos("Deployment successful!")
             /\ LogPos("Deployment successful!") > LogPos(PhaseHeader("deployment"))
       /\ pc = "serving" => LogPos("PIPELINE COMPLETED SUCCESSFULLY") > 0

\* C33 witness: the build was killed and the tests exited non-zero, and the
\* runner printed the final banner and its first health-check line.
C33_Witness ==
    /\ prog = "runner" /\ pc = "serving" /\ runner.ticks = 1
    /\ runner.ended = <<[phase |-> "build", outcome |-> "killed"],
                        [phase |-> "test", outcome |-> "exit1"]>>
    /\ LogPos("PIPELINE COMPLETED SUCCESSFULLY") > 0


\* --------------------------------------------------------------------- C34
\* The six functions main calls, in order.
DeployStages ==
    <<"check_prerequisites", "build_docker_image", "run_tests",
      "deploy_with_compose", "health_check", "generate_report">>

DeployReported == deploy.report # NoDeployReport

\* C34: in deploy.sh a deployment report exists only with status SUCCESS
\* and only after all four prerequisites were found, the image was built
\* and `compose up` started the containers, the six stages having run in
\* order; a missing prerequisite, a failed build and a failed `compose up`
\* each end the script with code 1 at that stage, with no later stage
\* called and no report.
C34_ReportOnlyAfterStart ==
    prog = "deploy" =>
       /\ DeployReported =>
             /\ deploy.report.status = "SUCCESS"
             /\ RequiredTools(prog) \subseteq deploy.tools
             /\ deploy.built = "ok" /\ deploy.up = "ok"
             /\ SubSeq(deploy.calls, 1, 6) = DeployStages
       /\ (deploy.calls # <<>> /\ deploy.calls[1] = "check_prerequisites"
              /\ RequiredTools(prog) \ deploy.tools # {})
             => (Ended /\ exitCode = 1 /\ ~DeployReported
                    /\ deploy.calls = SubSeq(DeployStages, 1, 1))
       /\ deploy.built = "failed"
             => (Ended /\ exitCode = 1 /\ ~DeployReported
                    /\ deploy.calls = SubSeq(DeployStages, 1, 2))
       /\ deploy.up = "failed"
             => (Ended /\ exitCode = 1 /\ ~DeployReported
                    /\ deploy.calls = SubSeq(DeployStages, 1, 4))

\* C34 witness: deploy.sh generated its report and ended with code 0.
C34_Witness ==
    /\ prog = "deploy" /\ Ended /\ exitCode = 0
    /\ DeployReported /\ deploy.up = "ok"

\* --------------------------------------------------------------------- C35
\* C35 (as claimed): whenever a deployment script has run its tests, with
\* either exit, it ends having called deploy_with_compose, health_check and
\* generate_report after them in that order, and with a SUCCESS report.
C35_AlwaysDeployedAfterTests ==
    (prog \in DeployScripts /\ Ended /\ deploy.tests # "none")
        => (deploy.calls = DeployStages /\ deploy.report.status = "SUCCESS")

\* C35: the exit of the test container never decides what follows: right
\* after run_tests the script is at deploy_with_compose and has not exited,
\* with either exit; and unless `compose up` fails or the script is
\* interrupted, it ends with code 0 having called deploy_with_compose,
\* health_check and generate_report in that order, with a SUCCESS report.
C35_TestsDoNotGate ==
    (prog \in DeployScripts /\ deploy.tests # "none" /\ ~deploy.interrupted) =>
       /\ deploy.calls[Len(deploy.calls)] = "run_tests"
             => (pc = "compose" /\ exitCode = -1)
       /\ \E k \in 3..6 : deploy.calls = SubSeq(DeployStages, 1, k)
       /\ (Ended /\ deploy.up # "failed")
             => (exitCode = 0 /\ deploy.calls = DeployStages
                    /\ deploy.report.status = "SUCCESS")

\* C35 witness: the test container exited non-zero and the script ended
\* with code 0 and a SUCCESS report.
C35_Witness ==
    /\ prog \in DeployScripts /\ Ended /\ exitCode = 0
    /\ deploy.tests = "exit1"
    /\ deploy.report.status = "SUCCESS"

\* --------------------------------------------------------------------- C36
\* The three newest of a set of time stamps, or all of them.
NewestThree(S) == {n \in S : Cardinality({m \in S : m > n}) < 3}

\* C36 (as claimed): the cleanup step leaves exactly the three newest
\* timestamp-tagged images (all of them when there are fewer), the image
\* of this run among them, and leaves `latest` alone.
C36_KeepsLastThree ==
    [][(prog \in DeployScripts /\ pc = "cleanup" /\ pc' = "up")
          => /\ deploy'.images = NewestThree(deploy.images)
             /\ deploy.TIMESTAMP \in deploy'.images
             /\ deploy'.latest = deploy.latest]_vars

\* --------------------------------------------------------------------- C37
\* The time stamps rollback can see, and those with a newer one beside them.
VisibleStamps == IF "docker" \in deploy.tools THEN deploy.images ELSE {}
OlderStamps == {n \in VisibleStamps : \E m \in VisibleStamps : m > n}

\* C37 (as claimed): an interrupted deploy.sh runs rollback and exits with
\* code 1; rollback makes `latest` a version strictly older than the newest
\* one, and without such a version it says 'No previous version found for
\* rollback' and changes neither the tags nor the containers.
C37_RollbackToOlder ==
    [][(prog = "deploy" /\ ~deploy.interrupted /\ deploy'.interrupted)
          => /\ pc' = "exited" /\ exitCode' = 1
             /\ deploy'.calls = Append(deploy.calls, "rollback")
             /\ IF OlderStamps # {}
                THEN deploy'.latest \in OlderStamps
                ELSE /\ "No previous version found for rollback" \in deploy'.said
                     /\ deploy'.latest = deploy.latest
                     /\ deploy'.images = deploy.images
                     /\ deploy'.containers = deploy.containers
                     /\ deploy'.invoked = deploy.invoked]_vars

\* --------------------------------------------------------------------- C38
\* Neither `docker compose` nor `docker-compose` is available.
NoCompose == deploy.tools \cap {"compose", "docker-compose"} = {}

\* C38 (as claimed): the updated script run without any Docker Compose
\* invokes no compose command, runs to completion and generates the report
\* with compose_available false and no containers.
C38_RunsToCompletion ==
    (prog = "deployV2" /\ NoCompose /\ Ended)
        => /\ deploy.invoked = <<>>
           /\ exitCode = 0
           /\ deploy.report.compose_available = "false"
           /\ deploy.report.containers = "[]"

\* C38: in the updated script run without any Docker Compose no compose
\* command is invoked and `compose up` is never tried, so the absence is
\* never what ends the script: it exits 1 only for a missing docker, node
\* or npm, a failed image build or an interruption, and otherwise ends with
\* code 0 after all six stages, the report saying compose_available false
\* with an empty containers list.
C38_ComposeAbsenceNotFatal ==
    (prog = "deployV2" /\ NoCompose) =>
       /\ deploy.invoked = <<>> /\ deploy.up = "none"
       /\ deploy.calls # <<>> => deploy.COMPOSE_CMD = ""
       /\ DeployReported =>
             /\ deploy.report.status = "SUCCESS"
             /\ deploy.report.compose_available = "false"
             /\ deploy.report.containers = "[]"
       /\ (Ended /\ exitCode = 1) =>
             \/ deploy.interrupted
             \/ deploy.built = "failed"
             \/ RequiredTools(prog) \ deploy.tools # {}
       /\ (Ended /\ exitCode = 0) => (DeployReported /\ deploy.calls = DeployStages)
       /\ (Ended /\ ~deploy.interrupted /\ deploy.built = "ok") => exitCode = 0

\* C38 witness: the updated script, run on a host without any Docker
\* Compose, ended with code 0 and its report.
C38_Witness ==
    /\ prog = "deployV2" /\ NoCompose /\ Ended /\ exitCode = 0
    /\ deploy.report.compose_available = "false"
    /\ deploy.calls = DeployStages


\* --------------------------------------------------------------------- C39
\* C39 (as claimed): the report server is never ended by a request and
\* every request it took up gets exactly one response: 200 for '/' and
\* '/health', 200 or 404 for a report route, 404 for any other path, also
\* when the report file is created, rewritten or removed between the
\* existence check and the read.
C39_EveryRequestAnswered ==
    prog = "server" =>
       /\ server.alive /\ exitCode = -1
       /\ \A i \in 1..Len(server.handled) :
             LET h == server.handled[i] IN
             /\ h.responses = 1
             /\ h.url \in {"/", "/health"} => h.code = 200
             /\ h.url \in ReportRoutes => h.code \in {200, 404}
             /\ h.url = "/other" => h.code = 404

====
